---- MODULE Spec2Model ----
(***************************************************************************)
(* Voter search: the ranking worker (worker.js), the client search loop    *)
(* (app.js) and the candidate generator (netlify functions).               *)
(*                                                                         *)
(* Text.  A JavaScript string is a sequence of characters; a character is  *)
(* written by an ASCII name.  Devanagari letters used by the tables:       *)
(*   independent vowels  A AA I II U UU E AI O AU RI RII LI LII            *)
(*                       (U+0905 U+0906 U+0907 U+0908 U+0909 U+090A U+090F *)
(*                        U+0910 U+0913 U+0914 U+090B U+0960 U+090C U+0961)*)
(*   vowel signs         maa mi mii mu muu me mai mo mau mri mrii mli mlii *)
(*                       (U+093E U+093F U+0940 U+0941 U+0942 U+0947 U+0948 *)
(*                        U+094B U+094C U+0943 U+0944 U+0962 U+0963)       *)
(*   marks               candra anusvara visarga nukta virama              *)
(*                       (U+0901 U+0902 U+0903 U+093C U+094D)              *)
(*   consonants          ka kha ga gha nga ca cha ja jha nya tta ttha dda  *)
(*                       ddha nna ta tha da dha na pa pha ba bha ma ya ra  *)
(*                       la va sha ssa sa ha   (U+0915 .. U+0939)          *)
(*   d1 (U+0967, digit one), danda (U+0964)                                *)
(*   sp (space), nbsp (U+00A0), dot (a character of the punctuation class) *)
(* All of them are single UTF-16 code units, so JavaScript's length,       *)
(* startsWith and indexing count characters.                               *)
(***************************************************************************)
EXTENDS Integers, Sequences, FiniteSets, TLC

\* null / undefined where a string is expected
Null == <<"NULL">>

\* ------------------------------------------------------------------
\* Character classes (worker.js)
\* ------------------------------------------------------------------
INDEP_VOWELS ==
  {"A", "AA", "I", "II", "U", "UU", "E", "AI", "O", "AU", "RI", "RII", "LI", "LII"}

MATRAS ==
  {"maa", "mi", "mii", "mu", "muu", "me", "mai", "mo", "mau", "mri", "mrii", "mli", "mlii"}

MARKS_AS_MATRA == {"candra", "anusvara", "visarga", "nukta", "virama"}

TYPE ==
  [EXACT |-> 0, PHONETIC |-> 1, VISUAL_P0 |-> 2, VISUAL_P1 |-> 3, VISUAL_P2 |-> 4, Other |-> 9]

MAX_CONS_MISMATCH_PER_WORD == 4
MAX_TOTAL_CONS_2WORD == 5
MAX_TOTAL_CONS_3PLUS == 7
PREFIX_FALLBACK_MAX_EXTRA_SUFFIX == 2
PREFIX_FALLBACK_GLOBAL_EXTRA_PER_WORD == 2
PREFIX_K2_MAX_SUBS == 1
PREFIX_K3_MAX_SUBS == 2
ADD_FALLBACK_FIRST_WORD_MAX_ADD_ENTITIES_IN_MULTI == 2

\* Substitution groups; every member is an entity, a sequence of characters.
VISUAL_P0 ==
  { {<<"E">>, <<"pa">>},
    {<<"ka">>, <<"pha">>},
    {<<"kha">>, <<"ra", "va">>, <<"tha">>, <<"ya">>, <<"ra", "maa">>, <<"sa">>, <<"sha">>},
    {<<"ga">>, <<"ra", "maa">>, <<"ma">>},
    {<<"gha">>, <<"dha">>, <<"cha">>},
    {<<"nga">>, <<"dda">>, <<"ha">>},
    {<<"ca">>, <<"ja">>, <<"ja", "virama", "nya">>, <<"nya">>},
    {<<"jha">>, <<"dda", "maa">>},
    {<<"tta">>, <<"ddha">>, <<"da">>, <<"ttha">>},
    {<<"ta">>, <<"na">>},
    {<<"pa">>, <<"ssa">>, <<"ya">>, <<"bha">>, <<"ma">>, <<"na">>, <<"pa", "virama", "na">>},
    {<<"ba">>, <<"va">>, <<"nya">>},
    {<<"ra">>, <<"d1">>},
    {<<"sha">>, <<"ra", "maa">>, <<"d1", "danda">>},
    {<<"ta", "virama", "ra">>, <<"nya">>},
    {<<"ta", "virama", "ta">>, <<"ta">>},
    {<<"sa", "virama", "na">>, <<"sa">>} }

VISUAL_P1 ==
  { {<<"nna">>, <<"ga">>},
    {<<"ha">>, <<"ha", "maa">>, <<"gha">>, <<"cha">>},
    {<<"dda">>, <<"ha">>, <<"I">>, <<"jha">>},
    {<<"pa">>, <<"E">>},
    {<<"sa">>, <<"ra", "maa">>, <<"sha">>},
    {<<"ra">>, <<"la">>} }

VISUAL_P2 ==
  { {<<"pa">>, <<"pha">>, <<"ca">>} }

PHONETIC ==
  { {<<"A">>, <<"AA">>},
    {<<"I">>, <<"II">>},
    {<<"U">>, <<"UU">>},
    {<<"E">>, <<"AI">>},
    {<<"O">>, <<"AU">>},
    {<<"RI">>, <<"RII">>},
    {<<"LI">>, <<"LII">>},
    {<<"ka">>, <<"kha">>},
    {<<"ga">>, <<"gha">>, <<"ha">>},
    {<<"ca">>, <<"cha">>},
    {<<"ja">>, <<"jha">>},
    {<<"tta">>, <<"ttha">>},
    {<<"dda">>, <<"ddha">>, <<"da">>, <<"dha">>, <<"ta">>, <<"tha">>},
    {<<"nna">>, <<"na">>},
    {<<"pa">>, <<"pha">>},
    {<<"ba">>, <<"bha">>, <<"va">>},
    {<<"ya">>, <<"ja">>},
    {<<"sa">>, <<"sha">>, <<"ssa">>},
    {<<"ta", "virama", "ra">>, <<"tta", "virama", "ra">>},
    {<<"ja", "virama", "nya">>, <<"ja", "virama", "ya", "maa">>},
    {<<"ra">>, <<"dda", "nukta">>} }

\* makePairMap: (a, b) is a key of the map iff a and b are two different
\* members of one group.
makePairMap(groups) ==
  { <<a, b>> \in (UNION groups) \X (UNION groups) :
      a # b /\ \E g \in groups : a \in g /\ b \in g }

PHON_MAP == makePairMap(PHONETIC)
VIS0_MAP == makePairMap(VISUAL_P0)
VIS1_MAP == makePairMap(VISUAL_P1)
VIS2_MAP == makePairMap(VISUAL_P2)

substType(a, b) ==
  IF a = b THEN TYPE.EXACT
  ELSE IF <<a, b>> \in PHON_MAP THEN TYPE.PHONETIC
  ELSE IF <<a, b>> \in VIS0_MAP THEN TYPE.VISUAL_P0
  ELSE IF <<a, b>> \in VIS1_MAP THEN TYPE.VISUAL_P1
  ELSE IF <<a, b>> \in VIS2_MAP THEN TYPE.VISUAL_P2
  ELSE TYPE.Other

\* ------------------------------------------------------------------
\* Normalization / tokenization (worker.js)
\* ------------------------------------------------------------------
Whitespace == {"sp", "nbsp"}
Punctuation == {"dot"}

RECURSIVE TrimLeft(_)
TrimLeft(s) ==
  IF s # <<>> /\ Head(s) \in Whitespace THEN TrimLeft(Tail(s)) ELSE s

RECURSIVE TrimRight(_)
TrimRight(s) ==
  IF s # <<>> /\ s[Len(s)] \in Whitespace
    THEN TrimRight(SubSeq(s, 1, Len(s) - 1)) ELSE s

\* String.prototype.trim
Trim(s) == TrimRight(TrimLeft(s))

\* s.replace(/[set]/g, to)
ReplaceAll(s, set, to) == [i \in 1..Len(s) |-> IF s[i] \in set THEN to ELSE s[i]]

\* s.replace(/\s+/g, " ")
RECURSIVE CollapseSpaces(_)
CollapseSpaces(s) ==
  IF s = <<>> THEN <<>>
  ELSE IF Head(s) \in Whitespace
    THEN <<"sp">> \o CollapseSpaces(TrimLeft(s))
    ELSE <<Head(s)>> \o CollapseSpaces(Tail(s))

normStrict(s) ==
  IF s = Null THEN <<>>
  ELSE LET s1 == Trim(ReplaceAll(s, {"nbsp"}, "sp"))
           s2 == ReplaceAll(s1, Punctuation, "sp")
       IN  Trim(CollapseSpaces(s2))

\* s.split(" ").filter(Boolean)
RECURSIVE SplitSp(_, _)
SplitSp(s, cur) ==
  IF s = <<>> THEN (IF cur = <<>> THEN <<>> ELSE <<cur>>)
  ELSE IF Head(s) = "sp"
    THEN (IF cur = <<>> THEN <<>> ELSE <<cur>>) \o SplitSp(Tail(s), <<>>)
    ELSE SplitSp(Tail(s), Append(cur, Head(s)))

tokenizeStrict(s) ==
  LET x == normStrict(s) IN IF x = <<>> THEN <<>> ELSE SplitSp(x, <<>>)

stripMarks(s) ==
  LET x == normStrict(s)
  IN  IF x = <<>> THEN <<>>
      ELSE Trim(CollapseSpaces(SelectSeq(x, LAMBDA ch : ch \notin MARKS_AS_MATRA)))

countMarks(s) ==
  LET x == normStrict(s)
  IN  Cardinality({i \in 1..Len(x) : x[i] \in MARKS_AS_MATRA})

\* q.replace(/\s+/g, "")
RemoveSpaces(s) == SelectSeq(s, LAMBDA ch : ch \notin Whitespace)

\* ------------------------------------------------------------------
\* Entity segmentation (worker.js)
\* ------------------------------------------------------------------
\* buildEntityList: every member of every group, with "d1" and "d1 danda";
\* the list is tried longest first.
ENTITY_LIST ==
  UNION VISUAL_P0 \cup UNION VISUAL_P1 \cup UNION VISUAL_P2 \cup UNION PHONETIC
    \cup {<<"d1">>, <<"d1", "danda">>}

\* w.startsWith(ent, i), i counted from 1
startsWith(w, ent, i) ==
  i + Len(ent) - 1 <= Len(w) /\ SubSeq(w, i, i + Len(ent) - 1) = ent

\* the first entity of ENTITY_LIST (sorted by descending length) that w
\* starts with at i; <<>> when there is none
MatchAt(w, i) ==
  LET fits == {ent \in ENTITY_LIST : startsWith(w, ent, i)}
  IN  IF fits = {} THEN <<>>
      ELSE CHOOSE e \in fits : \A f \in fits : Len(f) <= Len(e)

\* a segmentation that leaves out the characters no entity starts with
RECURSIVE SegmentFrom_Dropping(_, _)
SegmentFrom_Dropping(w, i) ==
  IF i > Len(w) THEN <<>>
  ELSE IF MatchAt(w, i) # <<>>
    THEN <<MatchAt(w, i)>> \o SegmentFrom_Dropping(w, i + Len(MatchAt(w, i)))
  ELSE SegmentFrom_Dropping(w, i + 1)

RECURSIVE SegmentFrom(_, _)
SegmentFrom(w, i) ==
  IF i > Len(w) THEN <<>>
  ELSE LET matched == MatchAt(w, i)
       IN  IF matched # <<>> THEN <<matched>> \o SegmentFrom(w, i + Len(matched))
           ELSE <<(<<w[i]>>)>> \o SegmentFrom(w, i + 1)

segmentEntities(word) == SegmentFrom(word, 1)

isMatraLikeUnit(u) == Len(u) = 1 /\ u[1] \in MATRAS

\* ------------------------------------------------------------------
\* Word comparisons (worker.js)
\* ------------------------------------------------------------------
Abs(x) == IF x < 0 THEN -x ELSE x
Max(a, b) == IF a >= b THEN a ELSE b
Min(a, b) == IF a <= b THEN a ELSE b
Count(S) == Cardinality(S)

Fail == [ok |-> FALSE]

\* The preamble shared by the three word comparisons: the normalized word,
\* its mark count, and the entities of the word without marks and spaces.
PrepOf(raw) ==
  [raw |-> raw,
   marks |-> countMarks(raw),
   ent |-> segmentEntities(RemoveSpaces(stripMarks(raw)))]

Prep(word) == PrepOf(normStrict(word))

\* the word is empty before or after the marks are stripped
Unusable(p) == p.raw = <<>> \/ p.ent = <<>>

\* The loop over the first n aligned entities: the number of vowel-sign
\* mismatches and, by substitution type, of the other mismatches.
CountType(qEnt, cEnt, cons, t) ==
  Count({i \in cons : substType(qEnt[i], cEnt[i]) = t})

TallyOf(qEnt, cEnt, n, cons) ==
  [cons |-> Count(cons),
   matra |-> Count({i \in 1..n : qEnt[i] # cEnt[i]}) - Count(cons),
   phoneticCount |-> CountType(qEnt, cEnt, cons, TYPE.PHONETIC),
   visualP0Count |-> CountType(qEnt, cEnt, cons, TYPE.VISUAL_P0),
   visualP1Count |-> CountType(qEnt, cEnt, cons, TYPE.VISUAL_P1),
   visualP2Count |-> CountType(qEnt, cEnt, cons, TYPE.VISUAL_P2),
   outsideCount |-> CountType(qEnt, cEnt, cons, TYPE.Other)]

Tally(qEnt, cEnt, n) ==
  TallyOf(qEnt, cEnt, n,
          {i \in 1..n : qEnt[i] # cEnt[i]
                        /\ ~isMatraLikeUnit(qEnt[i]) /\ ~isMatraLikeUnit(cEnt[i])})

\* a ladder without its first step (no mismatch at all)
TypeBucketOf_NoZeroStep(mismatches, t) ==
  IF t.phoneticCount > 0 /\ t.visualP0Count + t.visualP1Count + t.visualP2Count = 0
    THEN 0
  ELSE IF t.phoneticCount = 0 /\ t.visualP0Count + t.visualP1Count + t.visualP2Count > 0
    THEN IF t.visualP0Count > 0 /\ t.visualP1Count + t.visualP2Count = 0 THEN 1
         ELSE IF t.visualP1Count > 0 /\ t.visualP0Count + t.visualP2Count = 0 THEN 2
         ELSE IF t.visualP2Count > 0 /\ t.visualP0Count + t.visualP1Count = 0 THEN 3
         ELSE 4
  ELSE 4

\* the typeBucket ladder shared by the three word comparisons
TypeBucketOf(mismatches, t) ==
  IF mismatches = 0 THEN 0
  ELSE IF t.phoneticCount > 0 /\ t.visualP0Count + t.visualP1Count + t.visualP2Count = 0
    THEN 0
  ELSE IF t.phoneticCount = 0 /\ t.visualP0Count + t.visualP1Count + t.visualP2Count > 0
    THEN IF t.visualP0Count > 0 /\ t.visualP1Count + t.visualP2Count = 0 THEN 1
         ELSE IF t.visualP1Count > 0 /\ t.visualP0Count + t.visualP2Count = 0 THEN 2
         ELSE IF t.visualP2Count > 0 /\ t.visualP0Count + t.visualP1Count = 0 THEN 3
         ELSE 4
  ELSE 4

FullResult(t, marksDiff, allowConsonantSubs) ==
  IF t.cons > 0 /\ ~allowConsonantSubs THEN Fail
  ELSE IF t.outsideCount > 0 THEN Fail
  ELSE IF t.cons > MAX_CONS_MISMATCH_PER_WORD THEN Fail
  ELSE [ok |-> TRUE,
        consonantMismatches |-> t.cons,
        matraMismatches |-> marksDiff + t.matra,
        typeBucket |-> TypeBucketOf(t.cons, t)]

CompareFullPrep(q, c, allowConsonantSubs) ==
  IF Unusable(q) \/ Unusable(c) THEN Fail
  ELSE IF Len(q.ent) # Len(c.ent) THEN Fail
  ELSE FullResult(Tally(q.ent, c.ent, Len(q.ent)), Abs(q.marks - c.marks),
                  allowConsonantSubs)

compareWordFull(qWord, cWord, allowConsonantSubs) ==
  CompareFullPrep(Prep(qWord), Prep(cWord), allowConsonantSubs)

PrefixResult(t, marksDiff, qLen, cLen) ==
  IF t.outsideCount > 0 THEN Fail
  ELSE IF t.cons > (IF qLen = 2 THEN PREFIX_K2_MAX_SUBS ELSE PREFIX_K3_MAX_SUBS) THEN Fail
  ELSE [ok |-> TRUE,
        K |-> qLen,
        subs |-> t.cons,
        typeBucket |-> TypeBucketOf(t.cons, t),
        matraMismatches |-> marksDiff + t.matra,
        extraSuffix |-> cLen - qLen]

ComparePrefixPrep(q, c, allowConsonantSubs) ==
  IF ~allowConsonantSubs THEN Fail
  ELSE IF Unusable(q) \/ Unusable(c) THEN Fail
  ELSE IF ~(Len(q.ent) = 2 \/ Len(q.ent) = 3) THEN Fail
  ELSE IF Len(c.ent) < Len(q.ent) THEN Fail
  ELSE IF Len(c.ent) - Len(q.ent) > PREFIX_FALLBACK_MAX_EXTRA_SUFFIX THEN Fail
  ELSE PrefixResult(Tally(q.ent, c.ent, Len(q.ent)), Abs(q.marks - c.marks),
                    Len(q.ent), Len(c.ent))

compareWordPrefixFallback(qWord, cWord, allowConsonantSubs) ==
  ComparePrefixPrep(Prep(qWord), Prep(cWord), allowConsonantSubs)

outsideSubsCapByLen(qLen) ==
  IF qLen <= 0 THEN 0
  ELSE IF qLen = 3 THEN 1
  ELSE IF qLen >= 4 /\ qLen <= 8 THEN 2
  ELSE IF qLen >= 9 THEN 3
  ELSE 0

\* addCap is <<n>> for a cap of n and NoCap for null (unlimited)
NoCap == <<>>

\* a result that reports the candidate's length as the additions
AddOutsideResult_AdditionsFromZero(t, marksDiff, qLen, cLen) ==
  IF t.outsideCount > outsideSubsCapByLen(qLen) THEN Fail
  ELSE [ok |-> TRUE,
        qLen |-> qLen,
        additions |-> cLen,
        outsideSubs |-> t.outsideCount,
        consonantMismatches |-> t.cons,
        matraMismatches |-> marksDiff + t.matra,
        typeBucket |-> TypeBucketOf(t.cons, t)]

AddOutsideResult(t, marksDiff, qLen, cLen) ==
  IF t.outsideCount > outsideSubsCapByLen(qLen) THEN Fail
  ELSE [ok |-> TRUE,
        qLen |-> qLen,
        additions |-> cLen - qLen,
        outsideSubs |-> t.outsideCount,
        consonantMismatches |-> t.cons,
        matraMismatches |-> marksDiff + t.matra,
        typeBucket |-> TypeBucketOf(t.cons, t)]

CompareAddOutsidePrep(q, c, allowConsonantSubs, addCap) ==
  IF ~allowConsonantSubs THEN Fail
  ELSE IF Unusable(q) \/ Unusable(c) THEN Fail
  ELSE IF Len(c.ent) < Len(q.ent) THEN Fail
  ELSE IF addCap # NoCap /\ Len(c.ent) - Len(q.ent) > addCap[1] THEN Fail
  ELSE AddOutsideResult(Tally(q.ent, c.ent, Len(q.ent)), Abs(q.marks - c.marks),
                        Len(q.ent), Len(c.ent))

compareWordAddOutside(qWord, cWord, allowConsonantSubs, addCap) ==
  CompareAddOutsidePrep(Prep(qWord), Prep(cWord), allowConsonantSubs, addCap)

\* ------------------------------------------------------------------
\* Joined targets, exact scenarios, typing buckets, keys (worker.js)
\* ------------------------------------------------------------------
RECURSIVE Concat(_)
Concat(ss) == IF ss = <<>> THEN <<>> ELSE Head(ss) \o Concat(Tail(ss))

\* pos and span are 0-based as in the source; the list keeps the source's order
buildOneWordTargets(tokens) ==
  [i \in 1..Len(tokens) |->
      [text |-> tokens[i], kind |-> "TOKEN", pos |-> i - 1, span |-> 1]]
  \o [i \in 1..(Len(tokens) - 1) |->
      [text |-> tokens[i] \o tokens[i + 1], kind |-> "JOIN2", pos |-> i - 1, span |-> 2]]
  \o (IF Len(tokens) >= 2
        THEN <<[text |-> Concat(tokens), kind |-> "FULLJOIN", pos |-> 0,
                span |-> Len(tokens)]>>
        ELSE <<>>)

kindRank(kind) ==
  IF kind = "TOKEN" THEN 0
  ELSE IF kind = "JOIN2" THEN 1
  ELSE IF kind = "FULLJOIN" THEN 2
  ELSE 9

\* (kindRank, pos, span) of a before that of b
TargetBefore(a, b) ==
  \/ kindRank(a.kind) < kindRank(b.kind)
  \/ kindRank(a.kind) = kindRank(b.kind) /\ a.pos < b.pos
  \/ kindRank(a.kind) = kindRank(b.kind) /\ a.pos = b.pos /\ a.span < b.span

exactScenarioKey(qToks, cToks) ==
  IF Len(qToks) = 1
    THEN LET q == qToks[1]
             targets == buildOneWordTargets(cToks)
             hits == {i \in 1..Len(targets) : targets[i].text = q}
             \* the first hit that no other hit is strictly before
             bestIdx == CHOOSE i \in hits :
                          /\ \A j \in hits : ~TargetBefore(targets[j], targets[i])
                          /\ \A j \in hits :
                               (j < i) => TargetBefore(targets[i], targets[j])
             t == targets[bestIdx]
         IN  IF hits # {}
               THEN [ok |-> TRUE, scenarioId |-> 0, kindRank |-> kindRank(t.kind),
                     pos |-> t.pos, span |-> t.span, suffixCount |-> 0,
                     totalWords |-> Len(cToks)]
             ELSE IF Len(cToks) >= 1 /\ cToks[1] = q
               THEN [ok |-> TRUE, scenarioId |-> 1, kindRank |-> 0, pos |-> 0,
                     span |-> 1, suffixCount |-> Len(cToks) - 1,
                     totalWords |-> Len(cToks)]
             ELSE Fail
  ELSE IF Len(cToks) >= Len(qToks) /\ \A i \in 1..Len(qToks) : qToks[i] = cToks[i]
    THEN [ok |-> TRUE, scenarioId |-> 10, kindRank |-> 0, pos |-> 0,
          span |-> Len(qToks), suffixCount |-> Len(cToks) - Len(qToks),
          totalWords |-> Len(cToks)]
  ELSE Fail

\* the typing bucket, or NoBucket for null
NoBucket == -1

\* a ladder that never looks at the total
typingBucketOrder_NoTotalCap(nWords, perWordConMism, totalConMism) ==
  IF nWords = 1 THEN 0
  ELSE IF nWords = 2
    THEN LET w1 == perWordConMism[1]
             w2 == perWordConMism[2]
         IN  IF w1 = 0 /\ w2 > 0 /\ w2 <= 2 THEN 0
             ELSE IF w2 = 0 /\ w1 > 0 /\ w1 <= 2 THEN 1
             ELSE IF w1 = 0 /\ w2 > 0 /\ w2 <= 4 THEN 2
             ELSE IF w2 > 0 /\ w2 <= 4 /\ w1 > 0 /\ w1 <= 2 THEN 3
             ELSE 9
  ELSE 9

typingBucketOrder(nWords, perWordConMism, totalConMism) ==
  IF nWords = 1
    THEN IF totalConMism <= 4 THEN 0 ELSE NoBucket
  ELSE IF nWords = 2
    THEN LET w1 == perWordConMism[1]
             w2 == perWordConMism[2]
         IN  IF totalConMism > MAX_TOTAL_CONS_2WORD THEN NoBucket
             ELSE IF w1 = 0 /\ w2 > 0 /\ w2 <= 2 THEN 0
             ELSE IF w2 = 0 /\ w1 > 0 /\ w1 <= 2 THEN 1
             ELSE IF w1 = 0 /\ w2 > 0 /\ w2 <= 4 THEN 2
             ELSE IF w2 > 0 /\ w2 <= 4 /\ w1 > 0 /\ w1 <= 2 THEN 3
             ELSE 9
  ELSE LET w == perWordConMism
           last == nWords
           mid == 2
           first == 1
           allZeroExcept(idx) ==
             \A i \in 1..Len(w) : IF i = idx THEN w[i] > 0 ELSE w[i] = 0
       IN  IF totalConMism > MAX_TOTAL_CONS_3PLUS THEN NoBucket
           ELSE IF allZeroExcept(last) /\ w[last] <= 2 THEN 0
           ELSE IF nWords >= 3 /\ allZeroExcept(mid) /\ w[mid] <= 2 THEN 1
           ELSE IF allZeroExcept(first) /\ w[first] <= 2 THEN 2
           ELSE IF allZeroExcept(last) /\ w[last] <= 4 THEN 3
           ELSE IF nWords = 3 /\ w[first] = 0 /\ w[mid] > 0 /\ w[mid] <= 2
                   /\ w[last] > 0 /\ w[last] <= 4 THEN 4
           ELSE IF nWords = 3 /\ w[last] = 0 /\ w[first] > 0 /\ w[first] <= 2
                   /\ w[mid] > 0 /\ w[mid] <= 2 THEN 5
           ELSE IF nWords = 3 /\ w[first] <= 2 /\ w[mid] <= 2 /\ w[last] <= 4
                   /\ w[first] + w[mid] + w[last] > 0 THEN 6
           ELSE 9

\* a[i] ?? 0
KeyAt(a, i) == IF i <= Len(a) THEN a[i] ELSE 0

\* a comparison that puts the larger key first
cmpKey_Descending(a, b) ==
  LET n == Max(Len(a), Len(b))
      diff == {i \in 1..n : KeyAt(a, i) # KeyAt(b, i)}
      i0 == CHOOSE i \in diff : \A j \in diff : i <= j
  IN  IF diff = {} THEN 0
      ELSE IF KeyAt(a, i0) < KeyAt(b, i0) THEN 1 ELSE -1

\* -1, 0 or 1
cmpKey(a, b) ==
  LET n == Max(Len(a), Len(b))
      diff == {i \in 1..n : KeyAt(a, i) # KeyAt(b, i)}
      i0 == CHOOSE i \in diff : \A j \in diff : i <= j
  IN  IF diff = {} THEN 0
      ELSE IF KeyAt(a, i0) < KeyAt(b, i0) THEN -1 ELSE 1

\* serial_no is a string whose characters are the digits 0..9 and NonDigit
\* (any other character); parseSerial is the value of its first run of
\* digits, 0 when there is none (and for null)
Digits == 0..9
NonDigit == 10

RECURSIVE DigitsValue(_, _)
DigitsValue(s, acc) ==
  IF s = <<>> \/ Head(s) \notin Digits THEN acc
  ELSE DigitsValue(Tail(s), 10 * acc + Head(s))

RECURSIVE parseSerial(_)
parseSerial(serial) ==
  IF serial = <<>> THEN 0
  ELSE IF Head(serial) \in Digits THEN DigitsValue(serial, 0)
  ELSE parseSerial(Tail(serial))

\* ------------------------------------------------------------------
\* Field evaluation (worker.js)
\* ------------------------------------------------------------------
\* The weighted sums of the TYPO_PF and TYPO_AO keys are fractions; they are
\* kept as integers in units of 1/20 (PF, posW = 1 + 0.05 * max(0, 3 - i)) and
\* 1/10 (AO, posW = 1 + 0.10 * max(0, 3 - i)), which keeps their order.  i is
\* the 0-based word index.
PosW20(i) == 20 + Max(0, 3 - i)
PosW10(i) == 10 + Max(0, 3 - i)

RECURSIVE SumSeq(_)
SumSeq(xs) == IF xs = <<>> THEN 0 ELSE Head(xs) + SumSeq(Tail(xs))

\* the smallest of a non-empty set of results with distinct keys
MinByKey(S) == CHOOSE r \in S : \A o \in S : cmpKey(r.key, o.key) <= 0

\* explain is kept as the mode it starts with
Result(key, mode, fieldName) ==
  [ok |-> TRUE, key |-> key, explain |-> mode, match_field |-> fieldName]

AllOk(rs) == \A i \in 1..Len(rs) : rs[i].ok

\* 1-word query, typing mode: FULL over every target, else ADD/OUTSIDE
OneWordFullKey(r, t, serialNo) ==
  <<1, 0, typingBucketOrder(1, <<r.consonantMismatches>>, r.consonantMismatches),
    r.consonantMismatches, r.typeBucket, r.matraMismatches, kindRank(t.kind), t.pos,
    serialNo>>

OneWordAOKey(rao, t, serialNo) ==
  <<1, 2, rao.outsideSubs, rao.additions, rao.typeBucket, rao.matraMismatches,
    kindRank(t.kind), t.pos, serialNo>>

OneWordBest(targets, fulls, aos, serialNo, fieldName) ==
  IF \E i \in 1..Len(targets) :
       fulls[i].ok /\ OneWordFullKey(fulls[i], targets[i], serialNo)[3] # -1
    THEN MinByKey({Result(OneWordFullKey(fulls[i], targets[i], serialNo),
                          "TYPO_FULL", fieldName) :
                     i \in {j \in 1..Len(targets) :
                              fulls[j].ok
                              /\ OneWordFullKey(fulls[j], targets[j], serialNo)[3] # -1}})
  ELSE IF \E i \in 1..Len(targets) : aos[i].ok
    THEN MinByKey({Result(OneWordAOKey(aos[i], targets[i], serialNo),
                          "TYPO_AO", fieldName) :
                     i \in {j \in 1..Len(targets) : aos[j].ok}})
  ELSE Fail

OneWordOver(q, targets, serialNo, fieldName) ==
  OneWordBest(targets,
              [i \in 1..Len(targets) |-> compareWordFull(q, targets[i].text, TRUE)],
              [i \in 1..Len(targets) |->
                 compareWordAddOutside(q, targets[i].text, TRUE, NoCap)],
              serialNo, fieldName)

EvaluateOneWord(q, candToks, serialNo, fieldName) ==
  OneWordOver(q, buildOneWordTargets(candToks), serialNo, fieldName)

\* 2+ word query, typing mode, Len(candToks) >= Len(qToks)
MultiFullKey(full, n, suffixCount, totalWords, serialNo) ==
  <<1, 0,
    typingBucketOrder(n, [i \in 1..n |-> full[i].consonantMismatches],
                      SumSeq([i \in 1..n |-> full[i].consonantMismatches])),
    SumSeq([i \in 1..n |-> full[i].consonantMismatches * 1000000
                           + full[i].typeBucket * 10000 + full[i].matraMismatches]),
    suffixCount, totalWords, serialNo>>

MultiPFKey(pf, n, suffixCount, totalWords, serialNo) ==
  <<1, 1,
    SumSeq([i \in 1..n |-> pf[i].subs * 1000 * PosW20(i - 1)]),
    SumSeq([i \in 1..n |-> pf[i].typeBucket * 10 * PosW20(i - 1)]),
    SumSeq([i \in 1..n |-> pf[i].matraMismatches * PosW20(i - 1)]),
    SumSeq([i \in 1..n |-> pf[i].extraSuffix * 100 * PosW20(i - 1)]),
    suffixCount, totalWords, serialNo>>

MultiAOKey(ao, n, suffixCount, totalWords, serialNo) ==
  <<1, 2,
    SumSeq([i \in 1..n |-> ao[i].outsideSubs * PosW10(i - 1)]),
    SumSeq([i \in 1..n |-> ao[i].additions * (IF i = 1 THEN 2 ELSE 1)]),
    SumSeq([i \in 1..n |-> ao[i].typeBucket * PosW10(i - 1)]),
    SumSeq([i \in 1..n |-> ao[i].matraMismatches * PosW10(i - 1)]),
    suffixCount, totalWords, serialNo>>

MultiWordBest(full, pf, ao, n, suffixCount, totalWords, serialNo, fieldName) ==
  IF AllOk(full)
    THEN IF MultiFullKey(full, n, suffixCount, totalWords, serialNo)[3] = -1 THEN Fail
         ELSE Result(MultiFullKey(full, n, suffixCount, totalWords, serialNo),
                     "TYPO_FULL", fieldName)
  ELSE IF AllOk(pf)
    THEN IF SumSeq([i \in 1..n |-> pf[i].extraSuffix])
              > PREFIX_FALLBACK_GLOBAL_EXTRA_PER_WORD * n THEN Fail
         ELSE Result(MultiPFKey(pf, n, suffixCount, totalWords, serialNo),
                     "TYPO_PF", fieldName)
  ELSE IF AllOk(ao)
    THEN Result(MultiAOKey(ao, n, suffixCount, totalWords, serialNo),
                "TYPO_AO", fieldName)
  ELSE Fail

EvaluateMultiWord(qToks, candToks, serialNo, fieldName) ==
  MultiWordBest(
    [i \in 1..Len(qToks) |-> compareWordFull(qToks[i], candToks[i], TRUE)],
    [i \in 1..Len(qToks) |-> compareWordPrefixFallback(qToks[i], candToks[i], TRUE)],
    [i \in 1..Len(qToks) |->
       compareWordAddOutside(qToks[i], candToks[i], TRUE,
         IF i = 1 THEN <<ADD_FALLBACK_FIRST_WORD_MAX_ADD_ENTITIES_IN_MULTI>> ELSE NoCap)],
    Len(qToks), Len(candToks) - Len(qToks), Len(candToks), serialNo, fieldName)

ExactResult(ex, serialNo, fieldName) ==
  Result(<<0, ex.scenarioId, ex.kindRank, ex.pos, ex.suffixCount, ex.totalWords,
           serialNo>>, "EXACT", fieldName)

\* the typing families without the exactOn return
TypingResult_IgnoreExactOn(qToks, candToks, serialNo, fieldName, exactOn_) ==
  IF Len(candToks) < Len(qToks) THEN Fail
  ELSE IF Len(qToks) = 1
    THEN EvaluateOneWord(qToks[1], candToks, serialNo, fieldName)
  ELSE EvaluateMultiWord(qToks, candToks, serialNo, fieldName)

\* what evaluateAgainstField does once the exact scenarios have failed
TypingResult(qToks, candToks, serialNo, fieldName, exactOn_) ==
  IF exactOn_ THEN Fail
  ELSE IF Len(candToks) < Len(qToks) THEN Fail
  ELSE IF Len(qToks) = 1
    THEN EvaluateOneWord(qToks[1], candToks, serialNo, fieldName)
  ELSE EvaluateMultiWord(qToks, candToks, serialNo, fieldName)

FieldResult(ex, qToks, candToks, serialNo, fieldName, exactOn_) ==
  IF ex.ok THEN ExactResult(ex, serialNo, fieldName)
  ELSE TypingResult(qToks, candToks, serialNo, fieldName, exactOn_)

evaluateAgainstField(qToks, candToks, serialNo, fieldName, exactOn_) ==
  FieldResult(exactScenarioKey(qToks, candToks), qToks, candToks, serialNo, fieldName,
              exactOn_)

\* ------------------------------------------------------------------
\* Row evaluation (worker.js)
\* ------------------------------------------------------------------
\* a consider() that never replaces a result it already has
Keep_FirstWins(best, res, fieldName) ==
  IF ~res.ok THEN best
  ELSE IF ~best.ok THEN res
  ELSE best

\* the body of consider() once the field has been evaluated; best = Fail
\* stands for null
Keep(best, res, fieldName) ==
  IF ~res.ok THEN best
  ELSE IF ~best.ok THEN res
  ELSE IF cmpKey(res.key, best.key) < 0 THEN res
  ELSE IF cmpKey(res.key, best.key) = 0
          /\ best.match_field # "voter" /\ fieldName = "voter" THEN res
  ELSE best

Consider(best, qToks, serialNo, fieldName, candToks, exactOn_) ==
  IF candToks = <<>> THEN best
  ELSE Keep(best, evaluateAgainstField(qToks, candToks, serialNo, fieldName, exactOn_),
            fieldName)

EvaluateRowWith(row, qToks, scope_, exactOn_) ==
  Consider(
    IF scope_ = "relative" THEN Fail
    ELSE Consider(Fail, qToks, parseSerial(row.serial_no), "voter",
                  tokenizeStrict(row.voter_name_raw), exactOn_),
    qToks, parseSerial(row.serial_no), "relative",
    IF scope_ = "voter" THEN <<>> ELSE tokenizeStrict(row.relative_name_raw),
    exactOn_)

\* ------------------------------------------------------------------
\* Data: names, rows, queries
\* ------------------------------------------------------------------
Sp(a, b) == a \o <<"sp">> \o b

W_ram == <<"ra", "maa", "ma">>
W_rama == <<"ra", "maa", "ma", "maa">>
W_rag == <<"ra", "maa", "ga">>
W_kum == <<"ka", "mu", "ma">>
W_kun == <<"ka", "mu", "na">>
W_kumar == <<"ka", "mu", "ma", "maa", "ra">>
W_kumari == <<"ka", "mu", "ma", "maa", "ra", "mii">>
W_kamal == <<"ka", "ma", "la">>

\* Rows of the store, by AC and row_id.  Row ids are unique within an AC only.
RowStore ==
  [a \in {1, 2} |->
    IF a = 1
      THEN << [row_id |-> 1, voter_name_raw |-> Sp(W_ram, W_kun),
               relative_name_raw |-> Sp(W_ram, W_kum), serial_no |-> <<1>>],
              [row_id |-> 2, voter_name_raw |-> Sp(W_rama, W_kumar),
               relative_name_raw |-> <<>>, serial_no |-> <<2>>],
              [row_id |-> 3, voter_name_raw |-> W_kamal,
               relative_name_raw |-> <<"nbsp">> \o Sp(W_ram, W_kum),
               serial_no |-> <<>>] >>
      ELSE << [row_id |-> 1, voter_name_raw |-> Sp(W_ram, W_kum),
               relative_name_raw |-> Sp(W_ram, W_kum), serial_no |-> <<3>>],
              [row_id |-> 2, voter_name_raw |-> Sp(W_ram, W_kumari),
               relative_name_raw |-> W_rag, serial_no |-> <<NonDigit, 4>>],
              [row_id |-> 3, voter_name_raw |-> W_rag \o <<"sp", "dot">> \o W_kum,
               relative_name_raw |-> W_kamal, serial_no |-> <<1, 0>>] >> ]

ACs == DOMAIN RowStore

\* the row of AC a with the given row_id
RowOf(a, rid) ==
  LET i == CHOOSE j \in 1..Len(RowStore[a]) : RowStore[a][j].row_id = rid
  IN  RowStore[a][i]

RowIds(a) == {RowStore[a][j].row_id : j \in 1..Len(RowStore[a])}

\* query strings as typed
Queries ==
  { W_ram, <<"sp">> \o Sp(W_ram, W_kum), <<>> }

ScopeNames == {"voter", "relative", "anywhere"}

\* ------------------------------------------------------------------
\* Query normalizers and index keys (netlify/functions/candidates.js; the
\* client of unnamed/part_001 has the same functions)
\* ------------------------------------------------------------------
PREFIX_LEN_STRICT == 3
PREFIX_LEN_LOOSE == 2
PREFIX_LEN_EXACT == 2

\* the punctuation class of norm is that of normStrict without the backtick
\* a normalizer that turns punctuation into spaces after trimming and
\* collapsing the spaces
norm_PunctuationLast(s) ==
  IF s = Null THEN <<>>
  ELSE ReplaceAll(Trim(CollapseSpaces(ReplaceAll(s, {"nbsp"}, "sp"))), Punctuation, "sp")

norm(s) ==
  IF s = Null THEN <<>>
  ELSE Trim(CollapseSpaces(
         ReplaceAll(Trim(ReplaceAll(s, {"nbsp"}, "sp")), Punctuation, "sp")))

tokenize(s) == SplitSp(norm(s), <<>>)

prefixN(token, n) ==
  IF Len(RemoveSpaces(token)) >= n THEN SubSeq(RemoveSpaces(token), 1, n)
  ELSE RemoveSpaces(token)

\* The Latin letters the vowel maps write are named latA, latI, ...
INDEP_VOWEL_MAP ==
  [A |-> "latA", AA |-> "latA", I |-> "latI", II |-> "latI", U |-> "latU",
   UU |-> "latU", E |-> "latE", AI |-> "latE", O |-> "latO", AU |-> "latO",
   RI |-> "latR", RII |-> "latR", LI |-> "latL", LII |-> "latL"]

MATRA_MAP ==
  [maa |-> "latA", mi |-> "latI", mii |-> "latI", mu |-> "latU", muu |-> "latU",
   me |-> "latE", mai |-> "latE", mo |-> "latO", mau |-> "latO", mri |-> "latR",
   mrii |-> "latR", mli |-> "latL", mlii |-> "latL"]

REMOVE_MARKS == {"candra", "anusvara", "visarga", "nukta", "virama"}

\* the character loop of normExactIndex and normLoose
FoldVowels(s) ==
  [i \in 1..Len(SelectSeq(s, LAMBDA ch : ch \notin REMOVE_MARKS)) |->
     LET ch == SelectSeq(s, LAMBDA c : c \notin REMOVE_MARKS)[i]
     IN  IF ch \in DOMAIN INDEP_VOWEL_MAP THEN INDEP_VOWEL_MAP[ch]
         ELSE IF ch \in DOMAIN MATRA_MAP THEN MATRA_MAP[ch]
         ELSE ch]

normExactIndex(s) == Trim(CollapseSpaces(FoldVowels(norm(s))))

tokenizeExactIndex(s) == SplitSp(normExactIndex(s), <<>>)

\* CONFUSABLE_SETS, each folded to its first member; a later set overwrites
\* an earlier one, so ddha folds to dda
CONF_MAP ==
  [da |-> "da", ddha |-> "dda", ha |-> "da", ba |-> "ba", va |-> "ba",
   sa |-> "sa", sha |-> "sa", ta |-> "ta", na |-> "ta", dda |-> "dda"]

\* out.replace(/ra va/g, "kha")
RECURSIVE ReplaceRaVa(_)
ReplaceRaVa(s) ==
  IF Len(s) < 2 THEN s
  ELSE IF s[1] = "ra" /\ s[2] = "va" THEN <<"kha">> \o ReplaceRaVa(SubSeq(s, 3, Len(s)))
  ELSE <<s[1]>> \o ReplaceRaVa(Tail(s))

applyConfusableFoldLoose(s) ==
  ReplaceRaVa([i \in 1..Len(s) |->
                 IF s[i] \in DOMAIN CONF_MAP THEN CONF_MAP[s[i]] ELSE s[i]])

normLoose(s) == Trim(CollapseSpaces(applyConfusableFoldLoose(FoldVowels(norm(s)))))

tokenizeLoose(s) == SplitSp(normLoose(s), <<>>)

\* Array.from(new Set(xs)): the first occurrence of every element, in order
RECURSIVE Dedupe(_)
Dedupe(xs) ==
  IF xs = <<>> THEN <<>>
  ELSE LET front == Dedupe(SubSeq(xs, 1, Len(xs) - 1))
       IN  IF \E i \in 1..Len(front) : front[i] = xs[Len(xs)] THEN front
           ELSE Append(front, xs[Len(xs)])

\* toks with toks[i] and toks[i+1] merged, joined and stripped of spaces
MergedAt(toks, i) ==
  Concat(SubSeq(toks, 1, i - 1) \o <<toks[i] \o toks[i + 1]>>
         \o SubSeq(toks, i + 2, Len(toks)))

\* both branches (n <= 3 and n > 3) produce the same strings
joinVariantsTokens(tokens) ==
  IF Len(tokens) <= 1 THEN <<>>
  ELSE Dedupe([i \in 1..Len(tokens) - 1 |-> MergedAt(tokens, i)]
              \o <<Concat(tokens)>>)

buildKeysFromTokens(tokens, prefixLen) ==
  Dedupe(SelectSeq([i \in 1..Len(tokens) |-> prefixN(tokens[i], prefixLen)],
                   LAMBDA k : k # <<>>)
         \o SelectSeq([i \in 1..Len(joinVariantsTokens(tokens)) |->
                         prefixN(joinVariantsTokens(tokens)[i], prefixLen)],
                      LAMBDA k : k # <<>>))

\* the three key lists of a query
QueryKeys(q) ==
  [strictKeys |-> buildKeysFromTokens(tokenize(q), PREFIX_LEN_STRICT),
   exactKeys |-> buildKeysFromTokens(tokenizeExactIndex(q), PREFIX_LEN_EXACT),
   looseKeys |-> buildKeysFromTokens(tokenizeLoose(q), PREFIX_LEN_LOOSE)]

\* ------------------------------------------------------------------
\* Query helpers of app.js
\* ------------------------------------------------------------------
\* norm of app.js only trims; tokenize splits on runs of whitespace
App_norm(s) == IF s = Null THEN <<>> ELSE Trim(s)

App_tokenize(s) == SplitSp(CollapseSpaces(App_norm(s)), <<>>)

App_prefixN(s, n) ==
  IF Len(Trim(s)) >= n THEN SubSeq(Trim(s), 1, n) ELSE Trim(s)

App_joinVariantsTokens(tokens) ==
  IF Len(tokens) < 2 THEN <<>>
  ELSE [i \in 1..Len(tokens) - 1 |-> tokens[i] \o tokens[i + 1]]

App_buildKeysFromTokens(tokens, prefixLen) ==
  Dedupe(SelectSeq([i \in 1..Len(tokens) |-> App_prefixN(tokens[i], prefixLen)],
                   LAMBDA k : k # <<>>)
         \o SelectSeq([i \in 1..Len(App_joinVariantsTokens(tokens)) |->
                         App_prefixN(App_joinVariantsTokens(tokens)[i], prefixLen)],
                      LAMBDA k : k # <<>>))

\* tokenizeExactIndex and tokenizeLoose of app.js are tokenize
App_QueryKeys(q) ==
  [strictKeys |-> App_buildKeysFromTokens(App_tokenize(q), PREFIX_LEN_STRICT),
   exactKeys |-> App_buildKeysFromTokens(App_tokenize(q), PREFIX_LEN_EXACT),
   looseKeys |-> App_buildKeysFromTokens(App_tokenize(q), PREFIX_LEN_LOOSE)]

\* ------------------------------------------------------------------
\* The index tables of the store
\* ------------------------------------------------------------------
\* An index table of one AC is a function from the keys it stores to the
\* set of row ids posted under the key.
Families == {"strict", "exact", "loose"}
Fields == {"voter", "relative"}
Tables == [family : Families, field : Fields]

Table(family, field) == [family |-> family, field |-> field]

\* the keys of a name as the index of a family stores them: the tokenizer
\* and prefix length the query side uses for that family
NameKeys(name, family) ==
  IF family = "strict" THEN buildKeysFromTokens(tokenize(name), PREFIX_LEN_STRICT)
  ELSE IF family = "exact"
    THEN buildKeysFromTokens(tokenizeExactIndex(name), PREFIX_LEN_EXACT)
  ELSE buildKeysFromTokens(tokenizeLoose(name), PREFIX_LEN_LOOSE)

RowName(row, field) ==
  IF field = "voter" THEN row.voter_name_raw ELSE row.relative_name_raw

Range(f) == {f[x] : x \in DOMAIN f}

\* the index tables built over RowStore
RowKeySet(a, i, t) == Range(NameKeys(RowName(RowStore[a][i], t.field), t.family))

IndexOf(a, t) ==
  [k \in UNION {RowKeySet(a, i, t) : i \in 1..Len(RowStore[a])} |->
     {RowStore[a][i].row_id : i \in {j \in 1..Len(RowStore[a]) : k \in RowKeySet(a, j, t)}}]

\* the index tables of every AC, and those of AC a
StoreOf == [a \in ACs |-> [t \in Tables |-> IndexOf(a, t)]]

Store(a) == StoreOf[a]

\* ------------------------------------------------------------------
\* Index lookups of the three servers
\* ------------------------------------------------------------------
\* the row ids posted under any of the keys
Posted(idx, keys) == UNION {idx[k] : k \in keys \cap DOMAIN idx}

\* netlify/functions/candidates.js: COUNT(DISTINCT key) per row_id
queryIndexCandidates(idx, keys) ==
  [rid \in Posted(idx, Range(keys)) |->
     [hit_count |-> Cardinality({k \in Range(keys) \cap DOMAIN idx : rid \in idx[k]}),
      and_hit |-> Cardinality({k \in Range(keys) \cap DOMAIN idx : rid \in idx[k]})
                    = Len(keys)]]

\* unnamed/part_005: one statement per chunk of CHUNK keys; every statement
\* returns the stored row of each of its keys once
CHUNK == 900

ChunkOf(keys, c) == Range(SubSeq(keys, c * CHUNK + 1, Min(Len(keys), (c + 1) * CHUNK)))

ChunkCount(n) == (n + CHUNK - 1) \div CHUNK

HitCountByChunks(idx, keys, rid) ==
  SumSeq([c \in 1..ChunkCount(Len(keys)) |->
            Cardinality({k \in ChunkOf(keys, c - 1) \cap DOMAIN idx : rid \in idx[k]})])

Handler005(idx, keys) ==
  [rid \in Posted(idx, Range(keys)) |->
     [hit_count |-> HitCountByChunks(idx, keys, rid),
      and_hit |-> HitCountByChunks(idx, keys, rid) = Len(keys)]]

\* unnamed/part_004
MAX_KEYS_PER_LOOKUP == 200

\* the keys of the IN list: the first MAX_KEYS_PER_LOOKUP of them
QueriedKeys004(keys) ==
  IF Len(keys) > MAX_KEYS_PER_LOOKUP THEN SubSeq(keys, 1, MAX_KEYS_PER_LOOKUP) ELSE keys

postingsToHitCountMap(idx, keys) ==
  [rid \in Posted(idx, Range(QueriedKeys004(keys))) |->
     Cardinality({k \in Range(QueriedKeys004(keys)) \cap DOMAIN idx : rid \in idx[k]})]

mapToMeta(hitMap, keysLen) ==
  [rid \in DOMAIN hitMap |->
     [hit_count |-> hitMap[rid],
      and_hit |-> IF keysLen > 0 THEN hitMap[rid] = keysLen ELSE FALSE]]

\* ------------------------------------------------------------------
\* Candidate generation
\* ------------------------------------------------------------------
\* the key list a request holds for the indexes of a family
KeysFor(K, family) ==
  IF family = "strict" THEN K.strictKeys
  ELSE IF family = "exact" THEN K.exactKeys
  ELSE K.looseKeys

\* the if / else if / else over the scope: any scope that is neither "voter"
\* nor "relative" selects both fields
FieldSelected(scope_, field) ==
  IF scope_ = "voter" THEN field = "voter"
  ELSE IF scope_ = "relative" THEN field = "relative"
  ELSE TRUE

\* getCandidatesForQuery of netlify/functions/candidates.js and of the client
\* of unnamed/part_001: the tables a job is pushed for
Jobs(K, scope_, exactOn_) ==
  {t \in Tables : /\ FieldSelected(scope_, t.field)
                  /\ KeysFor(K, t.family) # <<>>
                  /\ t.family = "loose" => ~exactOn_}

\* the six maps once Promise.all has resolved; <<>> is the empty Map
Netlify_Maps(store, K, scope_, exactOn_) ==
  [t \in Tables |->
     IF t \in Jobs(K, scope_, exactOn_)
       THEN queryIndexCandidates(store[t], KeysFor(K, t.family))
       ELSE <<>>]

\* the client of unnamed/part_001 asks the server of unnamed/part_005, one
\* request per table
Client_Maps(store, K, scope_, exactOn_) ==
  [t \in Tables |->
     IF t \in Jobs(K, scope_, exactOn_)
       THEN Handler005(store[t], KeysFor(K, t.family))
       ELSE <<>>]

HitCountIn(m, rid) == IF rid \in DOMAIN m THEN m[rid].hit_count ELSE 0
AndHitIn(m, rid) == IF rid \in DOMAIN m THEN m[rid].and_hit ELSE FALSE

\* upsert over the six maps: emptyMeta patched by every map that has the row
MetaByRow(maps) ==
  [rid \in UNION {DOMAIN maps[t] : t \in Tables} |->
     [voter_hit_count |-> HitCountIn(maps[Table("strict", "voter")], rid),
      voter_and_hit |-> AndHitIn(maps[Table("strict", "voter")], rid),
      relative_hit_count |-> HitCountIn(maps[Table("strict", "relative")], rid),
      relative_and_hit |-> AndHitIn(maps[Table("strict", "relative")], rid),
      voter_exact_hit_count |-> HitCountIn(maps[Table("exact", "voter")], rid),
      voter_exact_and_hit |-> AndHitIn(maps[Table("exact", "voter")], rid),
      relative_exact_hit_count |-> HitCountIn(maps[Table("exact", "relative")], rid),
      relative_exact_and_hit |-> AndHitIn(maps[Table("exact", "relative")], rid),
      voter_loose_hit_count |-> HitCountIn(maps[Table("loose", "voter")], rid),
      voter_loose_and_hit |-> AndHitIn(maps[Table("loose", "voter")], rid),
      relative_loose_hit_count |-> HitCountIn(maps[Table("loose", "relative")], rid),
      relative_loose_and_hit |-> AndHitIn(maps[Table("loose", "relative")], rid)]]

\* candidates is the key set of metaByRow (its order is not kept)
Assembled(metaByRow) == [candidates |-> DOMAIN metaByRow, metaByRow |-> metaByRow]

Netlify_getCandidatesForQuery(store, q, scope_, exactOn_) ==
  Assembled(MetaByRow(Netlify_Maps(store, QueryKeys(q), scope_, exactOn_)))

getCandidatesForQuery(store, q, scope_, exactOn_) ==
  Assembled(MetaByRow(Client_Maps(store, QueryKeys(q), scope_, exactOn_)))

\* what the client gets for each AC, query, scope and typing switch: the
\* store does not change while the page is open
NormQueries == {norm(q) : q \in Queries}
CandidatesOf ==
  [a \in ACs |-> [q \in NormQueries |-> [sc \in ScopeNames |-> [ex \in BOOLEAN |->
     getCandidatesForQuery(Store(a), q, sc, ex)]]]]

\* the handler of unnamed/part_004; every index table exists.  The lookups it
\* makes: exactOn is read from the body and not used.
Lookups004(body) ==
  {t \in Tables : /\ FieldSelected(body.scope, t.field)
                  /\ KeysFor(body, t.family) # <<>>}

Hits004(store, body) ==
  [t \in Tables |->
     IF t \in Lookups004(body)
       THEN postingsToHitCountMap(store[t], KeysFor(body, t.family))
       ELSE <<>>]

Meta004(hits, body) ==
  [t \in Tables |-> mapToMeta(hits[t], Len(KeysFor(body, t.family)))]

TableOrder ==
  <<Table("strict", "voter"), Table("strict", "relative"), Table("exact", "voter"),
    Table("exact", "relative"), Table("loose", "voter"), Table("loose", "relative")>>

\* a unionKeys that leaves the loose maps out
unionKeys_NoLoose(maps) == UNION {DOMAIN maps[t] : t \in {u \in Tables : u.family # "loose"}}

unionKeys(maps) == UNION {DOMAIN maps[t] : t \in Tables}

MetaByRow004(hits, meta) ==
  [rid \in unionKeys(hits) |->
     [strict_voter_hit_count |-> HitCountIn(meta[Table("strict", "voter")], rid),
      strict_voter_and_hit |-> AndHitIn(meta[Table("strict", "voter")], rid),
      strict_rel_hit_count |-> HitCountIn(meta[Table("strict", "relative")], rid),
      strict_rel_and_hit |-> AndHitIn(meta[Table("strict", "relative")], rid),
      exact_voter_hit_count |-> HitCountIn(meta[Table("exact", "voter")], rid),
      exact_voter_and_hit |-> AndHitIn(meta[Table("exact", "voter")], rid),
      exact_rel_hit_count |-> HitCountIn(meta[Table("exact", "relative")], rid),
      exact_rel_and_hit |-> AndHitIn(meta[Table("exact", "relative")], rid),
      loose_voter_hit_count |-> HitCountIn(meta[Table("loose", "voter")], rid),
      loose_voter_and_hit |-> AndHitIn(meta[Table("loose", "voter")], rid),
      loose_rel_hit_count |-> HitCountIn(meta[Table("loose", "relative")], rid),
      loose_rel_and_hit |-> AndHitIn(meta[Table("loose", "relative")], rid),
      merged_hit_count |-> SumSeq([i \in 1..6 |->
                                     HitCountIn(meta[TableOrder[i]], rid)]),
      merged_and_hit |-> \E t \in Tables : AndHitIn(meta[t], rid)]]

Respond004(hits, meta) ==
  [candidates |-> unionKeys(hits), metaByRow |-> MetaByRow004(hits, meta)]

Handler004Over(hits, body) == Respond004(hits, Meta004(hits, body))

\* the body as the handler reads it: scope is String(body.scope || "voter")
Body004(raw) == [raw EXCEPT !.scope = IF @ = "" THEN "voter" ELSE @]

Handler004(store, raw) == Handler004Over(Hits004(store, Body004(raw)), Body004(raw))

\* getCandidatesForQuery of app.js: the three key lists go to the server with
\* scope and exactOn; candidates falls back to the keys of metaByRow
App_request(q, scope_, exactOn_) ==
  [scope |-> scope_, exactOn |-> exactOn_,
   strictKeys |-> App_QueryKeys(q).strictKeys,
   exactKeys |-> App_QueryKeys(q).exactKeys,
   looseKeys |-> App_QueryKeys(q).looseKeys]

App_Received(json) ==
  [candidates |-> IF json.candidates # {} THEN json.candidates
                  ELSE DOMAIN json.metaByRow,
   metaByRow |-> json.metaByRow]

App_getCandidatesForQuery(store, q, scope_, exactOn_) ==
  App_Received(Handler004(store, App_request(q, scope_, exactOn_)))

\* ------------------------------------------------------------------
\* State
\* ------------------------------------------------------------------
VARIABLES
  \* worker.js module state
  scope, exactOn, total, received, buffer, qTokens,
  \* the messages the worker posted while handling its last message
  posted,
  \* the AC whose rows a client of the worker alone sends it
  feedAc,
  \* history of the worker's current cycle: whether a start was handled, the
  \* rows of the batches handled since the most recent start, and the size
  \* of the buffer that start found
  cycle,
  \* client: districtPreloadToken, the disabled flag of the query inputs, the
  \* loading mark of the district button, the status line as the preload
  \* sets it, and the activations of preloadDistrictACs
  preload,
  \* client: the scope chip, current.ac and current.lastQuery, the ACs in
  \* loadAC._metaCache, the activation whose resolve is in pendingResolve
  searchScope, current, metaCache, pendingResolve,
  \* the messages posted to the worker and by the worker, not yet handled
  inbox, outbox,
  \* client: the published ranking and the view rendered from it
  rankedByRelevance, rankedView,
  \* the activations of runSearch; how many were started; how many store
  \* requests rejected
  run, launched, failures,
  \* the last candidates request, its response and the index lookups made
  \* for it
  creq, cresp, clookups,
  \* the last call of a function of the program made on its own, and what
  \* it returned
  call, ret

workerVars == <<scope, exactOn, total, received, buffer, qTokens>>
searchVars == <<searchScope, current, metaCache, pendingResolve, inbox, outbox,
                rankedByRelevance, rankedView, run, launched, failures>>
candVars == <<creq, cresp, clookups>>
callVars == <<call, ret>>
vars == <<workerVars, posted, feedAc, cycle, preload, searchVars, candVars, callVars>>

MaxBatch == 2
MaxReceived == 3
PROGRESS_EVERY == 4000

evaluateRow(row) == EvaluateRowWith(row, qTokens, scope, exactOn)

postProgress(phase, received_, total_) ==
  [type |-> "progress", phase |-> phase, candidates |-> total_,
   done |-> received_, total |-> total_]

\* a comparator that forgets the key
CompareEntries_RowIdOnly(a, b) == a.row_id - b.row_id

\* a comparator that looks at the mode of the key only
CompareEntries_ModeOnly(a, b) == a.key[1] - b.key[1]

\* the comparator of buffer.sort: negative when a sorts before b
CompareEntries(a, b) ==
  LET c == cmpKey(a.key, b.key)
  IN  IF c # 0 THEN c
      ELSE IF a.match_field # b.match_field /\ a.match_field = "voter" THEN -1
      ELSE IF a.match_field # b.match_field /\ b.match_field = "voter" THEN 1
      ELSE a.row_id - b.row_id

\* Array.prototype.sort (stable): insert x after the entries it does not precede
RECURSIVE InsertSorted(_, _)
InsertSorted(sorted, x) ==
  IF sorted = <<>> THEN <<x>>
  ELSE IF CompareEntries(x, Head(sorted)) < 0 THEN <<x>> \o sorted
  ELSE <<Head(sorted)>> \o InsertSorted(Tail(sorted), x)

RECURSIVE SortEntries(_, _)
SortEntries(todo, sorted) ==
  IF todo = <<>> THEN sorted
  ELSE SortEntries(Tail(todo), InsertSorted(sorted, Head(todo)))

\* what the batch loop pushes for one row: nothing when best is null
Pushed(row, best) ==
  IF best.ok
    THEN <<[row_id |-> row.row_id, key |-> best.key, explain |-> best.explain,
            match_field |-> best.match_field]>>
    ELSE <<>>

\* the entries pushed for the rows of one batch, in order
RECURSIVE ScoreRows(_, _, _, _)
ScoreRows(rows, qToks, scope_, exactOn_) ==
  IF rows = <<>> THEN <<>>
  ELSE Pushed(Head(rows), EvaluateRowWith(Head(rows), qToks, scope_, exactOn_))
       \o ScoreRows(Tail(rows), qToks, scope_, exactOn_)

\* a start that keeps the entries and the count of the cycle before
OnStart_KeepsBuffer(msg) ==
  /\ scope' = IF msg.scope = "" THEN "voter" ELSE msg.scope
  /\ exactOn' = msg.exactOn
  /\ qTokens' = tokenizeStrict(normStrict(msg.query))
  /\ total' = msg.total
  /\ posted' = <<postProgress("ranking", 0, msg.total)>>
  /\ UNCHANGED <<received, buffer>>

\* self.onmessage, msg.type = "start"
OnStart(msg) ==
  /\ scope' = IF msg.scope = "" THEN "voter" ELSE msg.scope
  /\ exactOn' = msg.exactOn
  /\ qTokens' = tokenizeStrict(normStrict(msg.query))
  /\ total' = msg.total
  /\ received' = 0
  /\ buffer' = <<>>
  /\ posted' = <<postProgress("ranking", 0, msg.total)>>

\* self.onmessage, msg.type = "batch"
OnBatch(msg) ==
  /\ buffer' = buffer \o ScoreRows(msg.rows, qTokens, scope, exactOn)
  /\ received' = received + Len(msg.rows)
  /\ posted' = IF received' % PROGRESS_EVERY = 0 \/ received' = total
                 THEN <<postProgress("ranking", received', total)>>
                 ELSE <<>>
  /\ UNCHANGED <<scope, exactOn, total, qTokens>>

\* self.onmessage, msg.type = "finish"
OnFinish ==
  /\ buffer' = SortEntries(buffer, <<>>)
  /\ posted' = << postProgress("sorting", received, total),
                  [type |-> "done",
                   ranked |-> [i \in 1..Len(buffer') |->
                                 [row_id |-> buffer'[i].row_id, rank |-> i - 1,
                                  explain |-> buffer'[i].explain]]] >>
  /\ UNCHANGED <<scope, exactOn, total, received, qTokens>>

\* ------------------------------------------------------------------
\* The search loop of the client (unnamed/part_001)
\* ------------------------------------------------------------------
\* getActiveACs(): every AC of the district is selected
ACList == <<1, 2>>

\* the runSearch calls that can be made
Searches == {1, 2}

\* the number of store requests that may reject
MaxFailures == 1

\* the states of the search box, the scope chips and the exact-only switch
\* at the runSearch calls
SearchInputs ==
  {[q |-> <<"sp">> \o Sp(W_ram, W_kum), scope |-> "voter", exactOn |-> FALSE],
   [q |-> W_ram, scope |-> "anywhere", exactOn |-> FALSE],
   [q |-> W_ram, scope |-> "relative", exactOn |-> TRUE],
   [q |-> <<>>, scope |-> "voter", exactOn |-> FALSE]}

SCORE_BATCH == 2000
SCORE_BASE == 1000000

NoAc == 0
NoSearch == 0

\* slugs of state: run[s] is the activation of runSearch number s.  sent is
\* the rowsWithMeta of its last runWorkerRanking call, ranked holds what the
\* promise of that call resolved with (empty while it is pending)
IdleRun ==
  [pc |-> "idle", q |-> <<>>, exactOn |-> FALSE, scopeForWorker |-> "voter", i |-> 0,
   merged |-> <<>>, reqAc |-> NoAc, reqScope |-> "voter", cand |-> {},
   renderLeft |-> <<>>, failed |-> "none", seq |-> 0, sent |-> <<>>, ranked |-> <<>>]

\* POST rows, kind "score": the rows of the AC with the given ids
RowsById(a, ids) ==
  IF a \in ACs THEN SelectSeq(RowStore[a], LAMBDA r : r.row_id \in ids) ELSE <<>>

\* the worker.postMessage calls of runWorkerRanking
BatchCount(n) == (n + SCORE_BATCH - 1) \div SCORE_BATCH

RankingMessages(rows, qStrict, exactOn_, scopeForWorker) ==
  <<[type |-> "start", query |-> qStrict, scope |-> scopeForWorker,
     exactOn |-> exactOn_, total |-> Len(rows)]>>
  \o [b \in 1..BatchCount(Len(rows)) |->
        [type |-> "batch",
         rows |-> SubSeq(rows, (b - 1) * SCORE_BATCH + 1, Min(Len(rows), b * SCORE_BATCH))]]
  \o <<[type |-> "finish"]>>

\* worker.onmessage, "done": the ranked list with the score of each place
ScoredRanked(ranked) ==
  [i \in 1..Len(ranked) |-> [row_id |-> ranked[i].row_id, score |-> SCORE_BASE - (i - 1)]]

makeKey(ac, row_id) == <<ac, row_id>>

\* merged.push for every ranked row of the AC
MergedWith(merged, ac, ranked) ==
  merged \o [i \in 1..Len(ranked) |->
               [key |-> makeKey(ac, ranked[i].row_id), ac |-> ac,
                row_id |-> ranked[i].row_id, score |-> ranked[i].score]]

\* the comparator of merged.sort
CompareMerged(a, b) ==
  IF b.score # a.score THEN b.score - a.score
  ELSE IF a.ac # b.ac THEN a.ac - b.ac
  ELSE a.row_id - b.row_id

RECURSIVE InsertMerged(_, _)
InsertMerged(sorted, x) ==
  IF sorted = <<>> THEN <<x>>
  ELSE IF CompareMerged(x, Head(sorted)) < 0 THEN <<x>> \o sorted
  ELSE <<Head(sorted)>> \o InsertMerged(Tail(sorted), x)

RECURSIVE SortMerged(_, _)
SortMerged(todo, sorted) ==
  IF todo = <<>> THEN sorted
  ELSE SortMerged(Tail(todo), InsertMerged(sorted, Head(todo)))

\* renderPage: the ACs of the rows of the page, in order of first appearance
\* (the page holds every row of the view)
MissingByAc(view) == Dedupe([i \in 1..Len(view) |-> view[i].ac])

InitSearch ==
  /\ searchScope = "voter"
  /\ current = [ac |-> NoAc, lastQuery |-> <<>>]
  /\ metaCache = {}
  /\ pendingResolve = NoSearch
  /\ inbox = <<>>
  /\ outbox = <<>>
  /\ rankedByRelevance = <<>>
  /\ rankedView = <<>>
  /\ run = [s \in Searches |-> IdleRun]
  /\ launched = 0
  /\ failures = 0

\* the head of the for loop for the AC at index i: loadAC sets current.ac and
\* either finds the meta cached, and getCandidatesForQuery sends its requests
\* for current.ac, or sends the ac_meta request
AtLoopHead(r, i, merged, sc) ==
  [r EXCEPT !.i = i, !.merged = merged, !.reqAc = ACList[i],
            !.reqScope = sc,
            !.pc = IF ACList[i] \in metaCache THEN "cand" ELSE "meta"]

\* after the loop: merged.sort, applyFiltersThenSortThenRender (no filter is
\* set, the sort mode is relevance) up to the first display request of
\* renderPage, whose loadAC sets current.ac
AfterLoop(r, merged) ==
  [r EXCEPT !.i = Len(ACList) + 1, !.merged = merged,
            !.renderLeft = MissingByAc(SortMerged(merged, <<>>)),
            !.pc = IF merged = <<>> THEN "done" ELSE "render"]

\* the next iteration of the loop of activation s, or the end of the loop
Continue(s, r, merged) ==
  IF r.i + 1 <= Len(ACList)
    THEN /\ run' = [run EXCEPT ![s] = AtLoopHead(r, r.i + 1, merged, searchScope)]
         /\ current' = [current EXCEPT !.ac = ACList[r.i + 1]]
         /\ UNCHANGED <<rankedByRelevance, rankedView>>
    ELSE /\ run' = [run EXCEPT ![s] = AfterLoop(r, merged)]
         /\ rankedByRelevance' = SortMerged(merged, <<>>)
         /\ rankedView' = SortMerged(merged, <<>>)
         /\ current' = IF merged = <<>> THEN current
                       ELSE [current EXCEPT !.ac = SortMerged(merged, <<>>)[1].ac]

OthersSearch == UNCHANGED <<feedAc, cycle, preload, creq, cresp, clookups, call, ret>>

\* runSearch up to its first request.  The scope chip and the typing toggle
\* are set by the handlers that call it.
StartSearch(s) ==
  \E q \in Queries, sc \in ScopeNames, ex \in BOOLEAN :
    /\ [q |-> q, scope |-> sc, exactOn |-> ex] \in SearchInputs
    /\ run[s].pc = "idle"
    /\ \A o \in Searches : o < s => run[o].pc # "idle"
    /\ searchScope' = sc
    /\ launched' = launched + 1
    /\ rankedByRelevance' = <<>>
    /\ rankedView' = <<>>
    /\ IF norm(q) = <<>>
         THEN /\ run' = [run EXCEPT ![s] = [IdleRun EXCEPT !.pc = "done",
                                                          !.seq = launched + 1]]
              /\ current' = [current EXCEPT !.lastQuery = <<>>]
         ELSE /\ run' = [run EXCEPT ![s] =
                 AtLoopHead([IdleRun EXCEPT !.q = norm(q), !.exactOn = ex,
                               !.seq = launched + 1,
                               !.scopeForWorker = IF sc = "anywhere" THEN "voter" ELSE sc],
                            1, <<>>, sc)]
              /\ current' = [ac |-> ACList[1], lastQuery |-> norm(q)]
    /\ UNCHANGED <<workerVars, posted, metaCache, pendingResolve, inbox, outbox, failures>>
    /\ OthersSearch

\* loadAC: the ac_meta response arrives; getCandidatesForQuery then sends
\* its requests for current.ac
MetaOk(s) ==
  /\ run[s].pc = "meta"
  /\ metaCache' = metaCache \cup {ACList[run[s].i]}
  /\ run' = [run EXCEPT ![s].pc = "cand", ![s].reqAc = current.ac,
                        ![s].reqScope = searchScope]
  /\ UNCHANGED <<workerVars, posted, searchScope, current, pendingResolve, inbox, outbox,
                 rankedByRelevance, rankedView, launched, failures>>
  /\ OthersSearch

\* loadAC: the ac_meta request rejects; the catch skips the AC
MetaFail(s) ==
  /\ run[s].pc = "meta"
  /\ failures < MaxFailures
  /\ failures' = failures + 1
  /\ Continue(s, [run[s] EXCEPT !.failed = "ac_meta"], run[s].merged)
  /\ UNCHANGED <<workerVars, posted, searchScope, metaCache, pendingResolve, inbox,
                 outbox, launched>>
  /\ OthersSearch

\* the candidates responses arrive: an empty list skips the AC, otherwise
\* fetchRowsByIds sends its request for current.ac
CandOk(s) ==
  /\ run[s].pc = "cand"
  /\ LET res == CandidatesOf[run[s].reqAc][run[s].q][run[s].reqScope][run[s].exactOn]
     IN  IF res.candidates = {}
           THEN Continue(s, run[s], run[s].merged)
           ELSE /\ run' = [run EXCEPT ![s].pc = "rows", ![s].cand = res.candidates,
                                      ![s].reqAc = current.ac]
                /\ UNCHANGED <<current, rankedByRelevance, rankedView>>
  /\ UNCHANGED <<workerVars, posted, searchScope, metaCache, pendingResolve, inbox,
                 outbox, launched, failures>>
  /\ OthersSearch

\* a candidates request rejects: nothing catches it, runSearch rejects
CandFail(s) ==
  /\ run[s].pc = "cand"
  /\ failures < MaxFailures
  /\ failures' = failures + 1
  /\ run' = [run EXCEPT ![s].pc = "threw", ![s].failed = "candidates"]
  /\ UNCHANGED <<workerVars, posted, searchScope, current, metaCache, pendingResolve,
                 inbox, outbox, rankedByRelevance, rankedView, launched>>
  /\ OthersSearch

\* the rows response arrives; runWorkerRanking takes the pending slot and
\* posts start, the batches and finish
RowsOk(s) ==
  /\ run[s].pc = "rows"
  /\ run' = [run EXCEPT ![s].pc = "rank",
                        ![s].sent = RowsById(run[s].reqAc, run[s].cand),
                        ![s].ranked = <<>>]
  /\ pendingResolve' = s
  /\ inbox' = inbox \o RankingMessages(RowsById(run[s].reqAc, run[s].cand), run[s].q,
                                       run[s].exactOn, run[s].scopeForWorker)
  /\ UNCHANGED <<workerVars, posted, searchScope, current, metaCache, outbox,
                 rankedByRelevance, rankedView, launched, failures>>
  /\ OthersSearch

\* the rows request rejects: nothing catches it, runSearch rejects
RowsFail(s) ==
  /\ run[s].pc = "rows"
  /\ failures < MaxFailures
  /\ failures' = failures + 1
  /\ run' = [run EXCEPT ![s].pc = "threw", ![s].failed = "rows"]
  /\ UNCHANGED <<workerVars, posted, searchScope, current, metaCache, pendingResolve,
                 inbox, outbox, rankedByRelevance, rankedView, launched>>
  /\ OthersSearch

\* the worker handles the next message of its queue; what it posts reaches
\* the client in order (progress messages only set the status line)
WorkerStep ==
  /\ inbox # <<>>
  /\ CASE Head(inbox).type = "start" -> OnStart(Head(inbox))
       [] Head(inbox).type = "batch" -> OnBatch(Head(inbox))
       [] Head(inbox).type = "finish" -> OnFinish
  /\ inbox' = Tail(inbox)
  /\ outbox' = outbox \o SelectSeq(posted', LAMBDA m : m.type = "done")
  /\ UNCHANGED <<searchScope, current, metaCache, pendingResolve, rankedByRelevance,
                 rankedView, run, launched, failures>>
  /\ OthersSearch

\* worker.onmessage, "done": the pending promise, if any, resolves and its
\* runSearch pushes the rows for the AC of its loop and goes on
ClientOnDone ==
  /\ outbox # <<>>
  /\ outbox' = Tail(outbox)
  /\ pendingResolve' = NoSearch
  /\ IF pendingResolve = NoSearch
       THEN UNCHANGED <<current, rankedByRelevance, rankedView, run>>
       ELSE Continue(pendingResolve,
                     [run[pendingResolve] EXCEPT
                        !.ranked = <<ScoredRanked(Head(outbox).ranked)>>],
                     MergedWith(run[pendingResolve].merged,
                                ACList[run[pendingResolve].i],
                                ScoredRanked(Head(outbox).ranked)))
  /\ UNCHANGED <<workerVars, posted, searchScope, metaCache, inbox, launched, failures>>
  /\ OthersSearch

\* renderPage: the display rows of one AC arrive; loadAC for the next AC of
\* the page, or the table is drawn
RenderStep(s) ==
  /\ run[s].pc = "render"
  /\ run' = [run EXCEPT ![s].renderLeft = Tail(@),
                        ![s].pc = IF Len(run[s].renderLeft) > 1 THEN "render" ELSE "done"]
  /\ current' = IF Len(run[s].renderLeft) > 1
                  THEN [current EXCEPT !.ac = run[s].renderLeft[2]]
                  ELSE current
  /\ UNCHANGED <<workerVars, posted, searchScope, metaCache, pendingResolve, inbox,
                 outbox, rankedByRelevance, rankedView, launched, failures>>
  /\ OthersSearch

SearchStep ==
  \/ \E s \in Searches : StartSearch(s)
  \/ \E s \in Searches : MetaOk(s)
  \/ \E s \in Searches : MetaFail(s)
  \/ \E s \in Searches : CandOk(s)
  \/ \E s \in Searches : CandFail(s)
  \/ \E s \in Searches : RowsOk(s)
  \/ \E s \in Searches : RowsFail(s)
  \/ WorkerStep
  \/ ClientOnDone
  \/ \E s \in Searches : RenderStep(s)

NextSearch == SearchStep

\* ------------------------------------------------------------------
\* The district preload of the client (unnamed/part_001)
\* ------------------------------------------------------------------
\* the preloadDistrictACs calls that can be made
MaxPreloads == 3
Preloads == 1..MaxPreloads

\* the AC lists of the districts setDistrictById can select
DistrictACs == {ACList, <<ACList[Len(ACList)]>>, <<>>}

IdlePreload == [pc |-> "idle", token |-> 0, acs |-> <<>>, i |-> 0]

InitPreload ==
  preload = [districtPreloadToken |-> 0, disabled |-> TRUE, loading |-> FALSE,
             status |-> "select_district", act |-> [p \in Preloads |-> IdlePreload]]

\* token !== districtPreloadToken
Cancelled_Never(p) == FALSE

Cancelled(p) == preload.act[p].token # preload.districtPreloadToken

\* setDistrictById for a district with the AC list acs: the rankings are
\* cleared and preloadDistrictACs runs up to its first await, inside loadAC
SetDistrictById(p) ==
  \E acs \in DistrictACs :
    /\ preload.act[p].pc = "idle"
    /\ \A o \in Preloads : o < p => preload.act[o].pc # "idle"
    /\ rankedByRelevance' = <<>>
    /\ rankedView' = <<>>
    /\ IF acs = <<>>
         THEN /\ preload' = [preload EXCEPT !.act[p] = [IdlePreload EXCEPT !.pc = "returned"]]
              /\ UNCHANGED current
         ELSE /\ preload' =
                   [districtPreloadToken |-> preload.districtPreloadToken + 1,
                    disabled |-> TRUE,
                    loading |-> TRUE,
                    status |-> "loading_district_ac",
                    act |-> [preload.act EXCEPT ![p] =
                               [pc |-> "load", token |-> preload.districtPreloadToken + 1,
                                acs |-> acs, i |-> 1]]]
              /\ current' = [current EXCEPT !.ac = acs[1]]
    /\ UNCHANGED <<workerVars, posted, searchScope, metaCache, pendingResolve, inbox,
                   outbox, run, launched, failures>>
    /\ UNCHANGED <<feedAc, cycle, candVars, callVars>>

\* the await of loadAC in the loop of activation p ends, with the meta
\* cached or fetched (ok) or with a rejected request, which the loop
\* catches; the loop goes on to its next await or the function returns
PreloadLoaded(p) ==
  \E ok \in BOOLEAN :
    /\ preload.act[p].pc = "load"
    /\ ok \/ preload.act[p].acs[preload.act[p].i] \notin metaCache
    /\ metaCache' = IF ok THEN metaCache \cup {preload.act[p].acs[preload.act[p].i]}
                    ELSE metaCache
    /\ IF Cancelled(p)
         THEN /\ preload' = [preload EXCEPT !.act[p].pc = "cancelled"]
              /\ UNCHANGED current
         ELSE IF preload.act[p].i < Len(preload.act[p].acs)
           THEN /\ preload' = [preload EXCEPT !.act[p].i = @ + 1,
                                              !.status = "loading_district_ac"]
                /\ current' = [current EXCEPT
                                 !.ac = preload.act[p].acs[preload.act[p].i + 1]]
           ELSE /\ preload' = [preload EXCEPT !.act[p].pc = "done",
                                              !.status = "ready_district_loaded",
                                              !.loading = FALSE,
                                              !.disabled = FALSE]
                /\ UNCHANGED current
    /\ UNCHANGED <<workerVars, posted, searchScope, pendingResolve, inbox, outbox,
                   rankedByRelevance, rankedView, run, launched, failures>>
    /\ UNCHANGED <<feedAc, cycle, candVars, callVars>>

NextPreload ==
  \/ \E p \in Preloads : SetDistrictById(p)
  \/ \E p \in Preloads : PreloadLoaded(p)

\* ------------------------------------------------------------------
\* Candidate requests against the three servers
\* ------------------------------------------------------------------
\* A store whose keys are the numbers 1, 2, ...: row 1 is posted under every
\* key, row 2 under the even keys, row 3 under the key after the first
\* MAX_KEYS_PER_LOOKUP keys (voter tables) or under key 1 (relative tables),
\* row 4 under key 2 of the loose tables.
MaxExtraKeys == 1

NumberedIdx(t) ==
  [k \in 1..(MAX_KEYS_PER_LOOKUP + MaxExtraKeys) |->
     {1} \cup (IF k % 2 = 0 THEN {2} ELSE {})
         \cup (IF t.field = "voter" /\ k = MAX_KEYS_PER_LOOKUP + 1 THEN {3} ELSE {})
         \cup (IF t.field = "relative" /\ k = 1 THEN {3} ELSE {})
         \cup (IF t.family = "loose" /\ k = 2 THEN {4} ELSE {})]

NumberedStore == [t \in Tables |-> NumberedIdx(t)]

\* the numbers of keys a request supplies for a family
KeyCounts == {0, 1, 2, MAX_KEYS_PER_LOOKUP, MAX_KEYS_PER_LOOKUP + MaxExtraKeys}

FirstKeys(n) == [i \in 1..n |-> i]

\* One entry per index lookup a request made: the table, the number of keys
\* supplied for it, the number of keys of the statement(s) sent to the store,
\* and the rows it yielded with their hit_count and and_hit.
LookupLog(maps, K, tables) ==
  {[table |-> t, supplied |-> Len(KeysFor(K, t.family)),
    queried |-> Len(KeysFor(K, t.family)), rows |-> maps[t]] : t \in tables}

LookupLog004(meta, body) ==
  {[table |-> t, supplied |-> Len(KeysFor(body, t.family)),
    queried |-> Len(QueriedKeys004(KeysFor(body, t.family))), rows |-> meta[t]] :
     t \in Lookups004(body)}

OthersCand == UNCHANGED <<workerVars, posted, feedAc, cycle, preload, searchVars, callVars>>

InitCand ==
  /\ creq = [via |-> "none"]
  /\ cresp = [candidates |-> {}, metaByRow |-> <<>>]
  /\ clookups = {}

\* GET candidates of netlify/functions/candidates.js
CandNetlify ==
  \E q \in Queries, sc \in ScopeNames \cup {""}, ex \in BOOLEAN, a \in ACs :
    /\ creq.via = "none"
    /\ creq' = [via |-> "netlify", ac |-> a, q |-> q, exactOn |-> ex,
                scope |-> IF sc = "" THEN "voter" ELSE sc,
                keys |-> QueryKeys(norm(q))]
    /\ IF norm(q) = <<>>
         THEN /\ cresp' = [status |-> 400, candidates |-> {}, metaByRow |-> <<>>]
              /\ clookups' = {}
         ELSE /\ cresp' = Netlify_getCandidatesForQuery(Store(a), norm(q), creq'.scope, ex)
              /\ clookups' = LookupLog(
                   Netlify_Maps(Store(a), QueryKeys(norm(q)), creq'.scope, ex),
                   QueryKeys(norm(q)), Jobs(QueryKeys(norm(q)), creq'.scope, ex))
    /\ OthersCand

\* getCandidatesForQuery of the client of unnamed/part_001, served by
\* unnamed/part_005
CandClient ==
  \E q \in Queries, sc \in ScopeNames, ex \in BOOLEAN, a \in ACs :
    /\ creq.via = "none"
    /\ creq' = [via |-> "client", ac |-> a, q |-> q, exactOn |-> ex, scope |-> sc,
                keys |-> QueryKeys(q)]
    /\ cresp' = getCandidatesForQuery(Store(a), q, sc, ex)
    /\ clookups' = LookupLog(Client_Maps(Store(a), QueryKeys(q), sc, ex),
                             QueryKeys(q), Jobs(QueryKeys(q), sc, ex))
    /\ OthersCand

\* getCandidatesForQuery of app.js, served by unnamed/part_004
CandApp ==
  \E q \in Queries, sc \in ScopeNames, ex \in BOOLEAN, a \in ACs :
    /\ creq.via = "none"
    /\ creq' = [via |-> "app", ac |-> a, q |-> q, exactOn |-> ex, scope |-> sc,
                keys |-> App_QueryKeys(q)]
    /\ cresp' = App_getCandidatesForQuery(Store(a), q, sc, ex)
    /\ clookups' = LookupLog004(
         Meta004(Hits004(Store(a), App_request(q, sc, ex)), App_request(q, sc, ex)),
         App_request(q, sc, ex))
    /\ OthersCand

\* POST candidates of unnamed/part_004 with any body
Post004 ==
  \E sc \in ScopeNames \cup {""}, ex \in BOOLEAN, nS \in KeyCounts, nE \in KeyCounts,
     nL \in KeyCounts :
    LET body == [scope |-> sc, exactOn |-> ex, strictKeys |-> FirstKeys(nS),
                 exactKeys |-> FirstKeys(nE), looseKeys |-> FirstKeys(nL)]
    IN  /\ creq.via = "none"
        /\ creq' = [via |-> "post004", exactOn |-> ex,
                    scope |-> IF sc = "" THEN "voter" ELSE sc,
                    keys |-> [strictKeys |-> FirstKeys(nS), exactKeys |-> FirstKeys(nE),
                              looseKeys |-> FirstKeys(nL)]]
        /\ cresp' = Handler004(NumberedStore, body)
        /\ clookups' = LookupLog004(Meta004(Hits004(NumberedStore, Body004(body)),
                                             Body004(body)), Body004(body))
        /\ OthersCand

\* POST candidates of unnamed/part_005 with any table and keys
Post005 ==
  \E t \in Tables, n \in KeyCounts :
    /\ creq.via = "none"
    /\ creq' = [via |-> "post005", exactOn |-> FALSE, scope |-> t.field]
    /\ cresp' = [candidates |-> DOMAIN Handler005(NumberedStore[t], FirstKeys(n)),
                 metaByRow |-> <<>>]
    /\ clookups' = IF n = 0 THEN {}
                   ELSE {[table |-> t, supplied |-> n, queried |-> n,
                          rows |-> Handler005(NumberedStore[t], FirstKeys(n))]}
    /\ OthersCand

NextCand == CandNetlify \/ CandClient \/ CandApp \/ Post004 \/ Post005

\* ------------------------------------------------------------------
\* The worker alone, driven by any client
\* ------------------------------------------------------------------
\* sequences of distinct row ids of AC a, of length 0..n
RECURSIVE DistinctSeqs(_, _)
DistinctSeqs(S, n) ==
  IF n = 0 THEN {<<>>}
  ELSE {<<>>} \cup {<<x>> \o s : x \in S, s \in DistinctSeqs(S, n - 1)}

NoRepeat(s) == \A i, j \in 1..Len(s) : i # j => s[i] # s[j]

InitWorker ==
  /\ scope = "voter"
  /\ exactOn = FALSE
  /\ total = 0
  /\ received = 0
  /\ buffer = <<>>
  /\ qTokens = <<>>
  /\ posted = <<>>
  /\ feedAc = CHOOSE a \in ACs : \A b \in ACs : a <= b
  /\ cycle = [started |-> FALSE, rows |-> <<>>, before |-> 0]

Start ==
  \E q \in Queries, sc \in ScopeNames \cup {""}, ex \in BOOLEAN, a \in ACs,
     tot \in {0, MaxReceived} :
    /\ OnStart([type |-> "start", query |-> q, scope |-> sc, exactOn |-> ex,
                total |-> tot])
    /\ feedAc' = a
    /\ UNCHANGED <<cycle, preload, searchVars, candVars, callVars>>

\* a batch of rows of the current AC
Batch ==
  \E ids \in DistinctSeqs(RowIds(feedAc), MaxBatch) :
    /\ NoRepeat(ids)
    /\ received + Len(ids) <= MaxReceived
    /\ OnBatch([type |-> "batch", rows |-> [i \in 1..Len(ids) |-> RowOf(feedAc, ids[i])]])
    /\ UNCHANGED <<feedAc, cycle, preload, searchVars, candVars, callVars>>

Finish == OnFinish /\ UNCHANGED <<feedAc, cycle, preload, searchVars, candVars, callVars>>

NextWorker == Start \/ Batch \/ Finish

\* The worker over several cycles, with the history of the current one.
\* Batches may repeat a row and may come before any start; a cycle has at
\* most as many rows as the AC.
CycleQueries == {W_ram, <<"sp">> \o Sp(W_ram, W_kum)}
CycleScopes == {"voter", "anywhere"}

CycleStart ==
  \E q \in CycleQueries, sc \in CycleScopes, a \in ACs :
    /\ OnStart([type |-> "start", query |-> q, scope |-> sc, exactOn |-> FALSE,
                total |-> Len(RowStore[a])])
    /\ feedAc' = a
    /\ cycle' = [started |-> TRUE, rows |-> <<>>, before |-> Len(buffer)]
    /\ UNCHANGED <<preload, searchVars, candVars, callVars>>

CycleBatch ==
  \E ids \in DistinctSeqs(RowIds(feedAc), MaxBatch) :
    /\ Len(cycle.rows) + Len(ids) <= Len(RowStore[feedAc])
    /\ OnBatch([type |-> "batch", rows |-> [i \in 1..Len(ids) |-> RowOf(feedAc, ids[i])]])
    /\ cycle' = [cycle EXCEPT !.rows = @ \o [i \in 1..Len(ids) |-> RowOf(feedAc, ids[i])]]
    /\ UNCHANGED <<feedAc, preload, searchVars, candVars, callVars>>

CycleFinish == OnFinish /\ UNCHANGED <<feedAc, cycle, preload, searchVars, candVars, callVars>>

NextCycle == CycleStart \/ CycleBatch \/ CycleFinish


\* ------------------------------------------------------------------
\* Row id blobs (unnamed/part_006, unnamed/part_004)
\* ------------------------------------------------------------------
\* A blob is a sequence of bytes 0..255.  Numbers are kept as integers below
\* 2^31; a number read from bytes that does not fit is kept as those bytes.
RECURSIVE Pow2(_)
Pow2(k) == IF k = 0 THEN 1 ELSE 2 * Pow2(k - 1)

RECURSIVE LittleEndianValue(_)
LittleEndianValue(bytes) ==
  IF bytes = <<>> THEN 0 ELSE Head(bytes) + 256 * LittleEndianValue(Tail(bytes))

LittleEndian(bytes) ==
  IF /\ \A i \in 1..Len(bytes) : i > 4 => bytes[i] = 0
     /\ bytes[4] < 128
    THEN LittleEndianValue(SubSeq(bytes, 1, 4))
    ELSE [bytes |-> bytes]

\* buf.readUInt32LE(i) for each group of four bytes
decodeU32(buf) ==
  [k \in 1..(Len(buf) \div 4) |-> LittleEndian(SubSeq(buf, 4 * k - 3, 4 * k))]

\* Number(buf.readBigUInt64LE(i)) for each group of eight bytes
decodeU64(buf) ==
  [k \in 1..(Len(buf) \div 8) |-> LittleEndian(SubSeq(buf, 8 * k - 7, 8 * k))]

\* res |= (b & 0x7f) << shift.  Up to shift 21 the bits are free and fit;
\* beyond, a group of zero bits changes nothing and any other group is kept
\* with the number it is or-ed into.
OrShifted(res, b, shift) ==
  IF shift <= 21 THEN res + (b % 128) * Pow2(shift)
  ELSE IF b % 128 = 0 THEN res
  ELSE [res |-> res, bits |-> b % 128, shift |-> shift]

\* the inner loop: one varint read from index i (from 1), and the index
\* after it
RECURSIVE ReadVarint(_, _, _, _)
ReadVarint(buf, i, shift, res) ==
  IF i > Len(buf) THEN [res |-> res, next |-> i]
  ELSE IF buf[i] < 128 \/ shift + 7 > 35
    THEN [res |-> OrShifted(res, buf[i], shift), next |-> i + 1]
  ELSE ReadVarint(buf, i + 1, shift + 7, OrShifted(res, buf[i], shift))

\* the outer loop: the varints of the blob from index i on
RECURSIVE ReadVarints(_, _)
ReadVarints(buf, i) ==
  IF i > Len(buf) THEN <<>>
  ELSE <<ReadVarint(buf, i, 0, 0).res>> \o ReadVarints(buf, ReadVarint(buf, i, 0, 0).next)

\* the running sums of raw, from acc on
RECURSIVE CumSum(_, _)
CumSum(raw, acc) ==
  IF raw = <<>> THEN <<>>
  ELSE <<acc + Head(raw)>> \o CumSum(Tail(raw), acc + Head(raw))

\* reduce((m, v) => (v > m ? v : m), 0)
RECURSIVE MaxOf(_)
MaxOf(xs) == IF xs = <<>> THEN 0 ELSE Max(Head(xs), MaxOf(Tail(xs)))

IMPLAUSIBLE == 5000

\* the choice between the varints and their running sums; n = 0 stands for
\* no hint
ChooseVarints(raw, delta, n) ==
  LET directOk == n = 0 \/ Len(raw) = n
      deltaOk == n = 0 \/ Len(delta) = n
  IN  IF directOk /\ ~deltaOk THEN raw
      ELSE IF ~directOk /\ deltaOk THEN delta
      ELSE IF MaxOf(raw) < IMPLAUSIBLE /\ MaxOf(delta) > IMPLAUSIBLE THEN delta
      ELSE raw

\* decodeRowIds of unnamed/part_006
decodeRowIds(blob, nHint) ==
  IF Len(blob) = 0 THEN <<>>
  ELSE IF nHint # 0 /\ Len(blob) = nHint * 4 THEN decodeU32(blob)
  ELSE IF nHint # 0 /\ Len(blob) = nHint * 8 THEN decodeU64(blob)
  ELSE IF Len(blob) % 4 = 0 /\ (nHint = 0 \/ Len(blob) \div 4 = nHint) THEN decodeU32(blob)
  ELSE IF Len(blob) % 8 = 0 /\ (nHint = 0 \/ Len(blob) \div 8 = nHint) THEN decodeU64(blob)
  ELSE ChooseVarints(ReadVarints(blob, 1), CumSum(ReadVarints(blob, 1), 0), nHint)

\* decodeRowIds of unnamed/part_004, for a blob.  Bytes as characters:
ByteBracket == 91
ByteMinus == 45
ByteComma == 44
ByteDigits == 48..57

\* the pieces of txt.split(",")
RECURSIVE SplitAtComma(_, _)
SplitAtComma(bytes, cur) ==
  IF bytes = <<>> THEN <<cur>>
  ELSE IF Head(bytes) = ByteComma THEN <<cur>> \o SplitAtComma(Tail(bytes), <<>>)
  ELSE SplitAtComma(Tail(bytes), Append(cur, Head(bytes)))

RECURSIVE DecimalValue(_, _)
DecimalValue(piece, acc) ==
  IF piece = <<>> THEN acc
  ELSE DecimalValue(Tail(piece), 10 * acc + (Head(piece) - 48))

\* map(Number).filter(Number.isFinite) over the pieces: a piece of digits is
\* its value, an empty piece is 0, a piece with any byte that is no part of
\* a numeric literal is NaN and is dropped (the blobs decoded here hold no
\* other kind of piece)
RECURSIVE FiniteNumbers(_)
FiniteNumbers(pieces) ==
  IF pieces = <<>> THEN <<>>
  ELSE (IF \A i \in 1..Len(Head(pieces)) : Head(pieces)[i] \in ByteDigits
          THEN <<DecimalValue(Head(pieces), 0)>>
          ELSE <<>>)
       \o FiniteNumbers(Tail(pieces))

\* the binary branch: 64-bit groups when the length allows, else 32-bit
\* groups, else nothing
Binary004(u8) ==
  IF Len(u8) % 8 = 0 THEN decodeU64(u8)
  ELSE IF Len(u8) % 4 = 0 THEN decodeU32(u8)
  ELSE <<>>

\* a first byte "[" sends the text to JSON.parse, which throws on a blob
\* that is no JSON text, and the catch falls through to the binary branch
decodeRowIds004(u8) ==
  IF u8 = <<>> THEN <<>>
  ELSE IF u8[1] = ByteBracket THEN Binary004(u8)
  ELSE IF u8[1] = ByteMinus \/ u8[1] \in ByteDigits
    THEN FiniteNumbers(SplitAtComma(u8, <<>>))
  ELSE Binary004(u8)

\* The four encodings of a list of row ids
RECURSIVE EncodeLE(_, _)
EncodeLE(v, width) ==
  IF width = 0 THEN <<>> ELSE <<v % 256>> \o EncodeLE(v \div 256, width - 1)

RECURSIVE Leb128(_)
Leb128(v) == IF v < 128 THEN <<v>> ELSE <<128 + (v % 128)>> \o Leb128(v \div 128)

RECURSIVE EncodePacked(_, _)
EncodePacked(ids, width) ==
  IF ids = <<>> THEN <<>> ELSE EncodeLE(Head(ids), width) \o EncodePacked(Tail(ids), width)

RECURSIVE EncodeVarints(_)
EncodeVarints(ids) ==
  IF ids = <<>> THEN <<>> ELSE Leb128(Head(ids)) \o EncodeVarints(Tail(ids))

Deltas(ids) == [i \in 1..Len(ids) |-> IF i = 1 THEN ids[1] ELSE ids[i] - ids[i - 1]]

Encodings == {"u32", "u64", "varint", "delta"}

Encoded(ids, enc) ==
  CASE enc = "u32" -> EncodePacked(ids, 4)
    [] enc = "u64" -> EncodePacked(ids, 8)
    [] enc = "varint" -> EncodeVarints(ids)
    [] enc = "delta" -> EncodeVarints(Deltas(ids))

\* the row ids that occur in the lists, and the lists: ascending, of up to
\* MaxIds ids
IdValues == {1, 2, 3, 49, 1000, 3000, 20000, 2097152}
MaxIds == 3

RECURSIVE Ascending(_)
Ascending(S) ==
  IF S = {} THEN <<>>
  ELSE LET m == CHOOSE x \in S : \A y \in S : x <= y
       IN  <<m>> \o Ascending(S \ {m})

IdLists == {Ascending(S) : S \in {T \in SUBSET IdValues : Cardinality(T) <= MaxIds}}

\* ------------------------------------------------------------------
\* Functions called on their own
\* ------------------------------------------------------------------
OthersCall == UNCHANGED <<workerVars, posted, feedAc, cycle, preload, searchVars, candVars>>

NoCall == [fn |-> "none"]

InitCall ==
  /\ call = NoCall
  /\ ret = <<>>

\* decodeRowIds of unnamed/part_006 on an encoded list, with its length as
\* the hint
DecodeRowIds ==
  \E ids \in IdLists, enc \in Encodings :
    /\ call = NoCall
    /\ call' = [fn |-> "decodeRowIds", ids |-> ids, encoding |-> enc,
                blob |-> Encoded(ids, enc)]
    /\ ret' = decodeRowIds(Encoded(ids, enc), Len(ids))
    /\ OthersCall

\* decodeRowIds of unnamed/part_004 on an encoded list
DecodeRowIds004 ==
  \E ids \in IdLists, enc \in Encodings :
    /\ call = NoCall
    /\ call' = [fn |-> "decodeRowIds004", ids |-> ids, encoding |-> enc,
                blob |-> Encoded(ids, enc)]
    /\ ret' = decodeRowIds004(Encoded(ids, enc))
    /\ OthersCall

NextDecode == DecodeRowIds \/ DecodeRowIds004

\* The words and strings the functions of worker.js are called on: every
\* string of up to MaxWordLen of these characters
WordChars == {"ra", "maa", "ja", "virama", "nya", "sp"}
MaxWordLen == 4
Strings == UNION {[1..n -> WordChars] : n \in 0..MaxWordLen}

\* segmentEntities on a string as it is
SegmentWord ==
  \E w \in Strings :
    /\ call = NoCall
    /\ call' = [fn |-> "segmentEntities", s |-> w, word |-> w, stripped |-> FALSE]
    /\ ret' = segmentEntities(w)
    /\ OthersCall

\* segmentEntities on what stripMarks makes of a string
SegmentStripped ==
  \E s \in Strings :
    /\ call = NoCall
    /\ call' = [fn |-> "segmentEntities", s |-> s, word |-> stripMarks(s), stripped |-> TRUE]
    /\ ret' = segmentEntities(stripMarks(s))
    /\ OthersCall

\* The words a word comparison is called on with itself: every string of up
\* to MaxWordLen of these characters
CompareChars == {"ra", "maa", "virama", "sp"}
CompareWords == UNION {[1..n -> CompareChars] : n \in 0..MaxWordLen}
AddCaps == {NoCap, <<0>>, <<ADD_FALLBACK_FIRST_WORD_MAX_ADD_ENTITIES_IN_MULTI>>}

\* compareWordFull of a word with itself
CompareFullSelf ==
  \E w \in CompareWords, allowConsonantSubs \in BOOLEAN :
    /\ call = NoCall
    /\ call' = [fn |-> "compareWordFull", qWord |-> w, cWord |-> w,
                allowConsonantSubs |-> allowConsonantSubs]
    /\ ret' = compareWordFull(w, w, allowConsonantSubs)
    /\ OthersCall

\* compareWordAddOutside of a word with itself
CompareAddOutsideSelf ==
  \E w \in CompareWords, allowConsonantSubs \in BOOLEAN, addCap \in AddCaps :
    /\ call = NoCall
    /\ call' = [fn |-> "compareWordAddOutside", qWord |-> w, cWord |-> w,
                allowConsonantSubs |-> allowConsonantSubs, addCap |-> addCap]
    /\ ret' = compareWordAddOutside(w, w, allowConsonantSubs, addCap)
    /\ OthersCall

NextWords == SegmentWord \/ SegmentStripped \/ CompareFullSelf \/ CompareAddOutsideSelf

\* The tokens evaluateAgainstField is called on: words of three and of five
\* consonants, and the same words with every consonant replaced by its
\* aspirated (phonetic) partner
K3 == <<"ka", "ga", "ca">>
K3s == <<"kha", "gha", "cha">>
K5 == <<"ka", "ga", "ca", "ja", "tta">>
K5s == <<"kha", "gha", "cha", "jha", "ttha">>
QWords == {K3, K5}
CWords == {K3, K3s, K5s}
MaxFieldWords == 3
FieldQueries == UNION {[1..n -> QWords] : n \in 1..MaxFieldWords}
FieldCands == UNION {[1..n -> CWords] : n \in 1..MaxFieldWords}

\* evaluateAgainstField on a tokenized query and the tokens of a field
EvaluateField ==
  \E qToks \in FieldQueries, candToks \in FieldCands, exactOn_ \in BOOLEAN :
    /\ call = NoCall
    /\ call' = [fn |-> "evaluateAgainstField", qToks |-> qToks, candToks |-> candToks,
                exactOn |-> exactOn_]
    /\ ret' = evaluateAgainstField(qToks, candToks, 1, "voter", exactOn_)
    /\ OthersCall

\* The queries and fields of two rows ranked against each other: a word
\* that is a token, the join of two tokens or the join of all tokens of a
\* field, and queries of two words with fields that go on after them
T_ra == <<"ra">>
T_ma == <<"ma">>
T_ka == <<"ka">>
T_kha == <<"kha">>
RankQueries == {<<T_ra \o T_ma \o T_ka>>, <<T_ra, T_ma>>, <<T_ka, T_ma>>}
RankFields ==
  { <<T_ra \o T_ma \o T_ka, T_ka, T_ka>>, <<T_ra \o T_ma, T_ka, T_ka>>,
    <<T_ra, T_ma, T_ka>>, <<T_ra, T_ma>>, <<T_kha, T_ma>>, <<T_kha, T_ma, T_ka>> }

\* two rows scored on one field each, as the batch loop pushes them, and
\* sorted as on finish
RankTwo ==
  \E qToks \in RankQueries, f1 \in RankFields, f2 \in RankFields :
    /\ call = NoCall
    /\ call' = [fn |-> "rank", qToks |-> qToks, fields |-> <<f1, f2>>]
    /\ ret' = SortEntries(
                 Pushed([row_id |-> 1], evaluateAgainstField(qToks, f1, 1, "voter", FALSE))
                 \o Pushed([row_id |-> 2], evaluateAgainstField(qToks, f2, 1, "voter", FALSE)),
                 <<>>)
    /\ OthersCall

NextField == EvaluateField \/ RankTwo

\* The fields a query of K3 words is evaluated against, two at a time: K3
\* itself, K3 with an anusvara on its first consonant, and K3 with its first
\* consonant replaced by its aspirated partner
K3m == <<"ka", "anusvara", "ga", "ca">>
K3p == <<"kha", "ga", "ca">>
BucketWords == {K3, K3m, K3p}

EvaluateTwoFields ==
  \E n \in 2..MaxFieldWords :
    \E a \in [1..n -> BucketWords], b \in [1..n -> BucketWords] :
      /\ call = NoCall
      /\ call' = [fn |-> "evaluateAgainstField two", qToks |-> [i \in 1..n |-> K3],
                  a |-> a, b |-> b]
      /\ ret' = [a |-> evaluateAgainstField([i \in 1..n |-> K3], a, 1, "voter", FALSE),
                 b |-> evaluateAgainstField([i \in 1..n |-> K3], b, 1, "voter", FALSE)]
      /\ OthersCall

NextBucket == EvaluateTwoFields

\* Statements sent to the store.  A statement is kept as the values bound to
\* its IN list and the number of its other bound parameters.
SQLITE_MAX_VARIABLES == 999
ROWS_CHUNK == 800

Statement(bound, others) == [bound |-> bound, others |-> others]

\* chunkArray of netlify/functions/rows.js, and the slice loop of
\* unnamed/part_005
chunkArray(arr, size) ==
  [c \in 1..((Len(arr) + size - 1) \div size) |->
     SubSeq(arr, (c - 1) * size + 1, Min(Len(arr), c * size))]

\* unnamed/part_005: args = [state, ac, ...chunk]
Statements005(keys) ==
  [c \in 1..ChunkCount(Len(keys)) |-> Statement(chunkArray(keys, CHUNK)[c], 2)]

\* netlify/functions/rows.js: args = [ac, ...ids]
StatementsRows(rowIds) ==
  [c \in 1..Len(chunkArray(rowIds, ROWS_CHUNK)) |->
     Statement(chunkArray(rowIds, ROWS_CHUNK)[c], 1)]

\* queryIndexCandidates of netlify/functions/candidates.js: @ac and one
\* parameter per key, in one statement
StatementsNetlify(keys) ==
  IF keys = <<>> THEN <<>> ELSE <<Statement(keys, 1)>>

\* The index tables and the voters table behind the statements: keys and row
\* ids are the numbers from 1; row 1 is posted under every key, row 2 under
\* the even keys, row 3 under the last key; the voters table has the rows
\* whose id is no multiple of 3.  A statement returns the rows of its bound
\* ids in the order of the ids, which are ascending.
MaxStoreKeys == 2 * CHUNK + MaxExtraKeys
BigIdx == [k \in 1..MaxStoreKeys |->
             {1} \cup (IF k % 2 = 0 THEN {2} ELSE {})
                 \cup (IF k = MaxStoreKeys THEN {3} ELSE {})]
InVoters(id) == id % 3 # 0

\* outRows of rows.js: the rows of every statement, in the order of the chunks
RECURSIVE RowsOfStatements(_)
RowsOfStatements(sts) ==
  IF sts = <<>> THEN <<>>
  ELSE SelectSeq(Head(sts).bound, InVoters) \o RowsOfStatements(Tail(sts))

\* the numbers of keys or row ids of a request
StoreCounts ==
  {0, 1, ROWS_CHUNK, ROWS_CHUNK + MaxExtraKeys, CHUNK, CHUNK + MaxExtraKeys,
   SQLITE_MAX_VARIABLES - 2, SQLITE_MAX_VARIABLES - 1, SQLITE_MAX_VARIABLES,
   2 * ROWS_CHUNK + MaxExtraKeys, 2 * CHUNK + MaxExtraKeys}

\* POST to unnamed/part_005 with n keys for a table
Lookup005 ==
  \E t \in Tables, n \in StoreCounts :
    /\ call = NoCall
    /\ call' = [fn |-> "lookup005", table |-> t, ids |-> FirstKeys(n)]
    /\ ret' = [statements |-> Statements005(FirstKeys(n)),
               rows |-> Handler005(BigIdx, FirstKeys(n))]
    /\ OthersCall

\* POST to netlify/functions/rows.js with n row ids
FetchRows ==
  \E mode \in {"score", "display"}, a \in ACs, n \in StoreCounts :
    /\ call = NoCall
    /\ call' = [fn |-> "rows", mode |-> mode, ac |-> a, ids |-> FirstKeys(n)]
    /\ ret' = [statements |-> StatementsRows(FirstKeys(n)),
               rows |-> RowsOfStatements(StatementsRows(FirstKeys(n)))]
    /\ OthersCall

\* queryIndexCandidates of netlify/functions/candidates.js with n keys
LookupNetlify ==
  \E t \in Tables, n \in StoreCounts :
    /\ call = NoCall
    /\ call' = [fn |-> "queryIndexCandidates", table |-> t, ids |-> FirstKeys(n)]
    /\ ret' = [statements |-> StatementsNetlify(FirstKeys(n)),
               rows |-> queryIndexCandidates(BigIdx, FirstKeys(n))]
    /\ OthersCall

NextStore == Lookup005 \/ FetchRows \/ LookupNetlify

\* The token lists the key builders are called on: up to MaxTokens tokens of
\* one, two and three characters, with each prefix length of the indexes
KeyTokens == {<<"ka">>, <<"ma", "la">>, <<"ra", "maa", "ma">>}
MaxTokens == 3
TokenLists == UNION {[1..n -> KeyTokens] : n \in 1..MaxTokens}
PrefixLens == {PREFIX_LEN_STRICT, PREFIX_LEN_EXACT, PREFIX_LEN_LOOSE}

\* buildKeysFromTokens of netlify/functions/candidates.js
BuildKeys ==
  \E tokens \in TokenLists, prefixLen \in PrefixLens :
    /\ call = NoCall
    /\ call' = [fn |-> "buildKeysFromTokens", tokens |-> tokens, prefixLen |-> prefixLen]
    /\ ret' = buildKeysFromTokens(tokens, prefixLen)
    /\ OthersCall

\* buildKeysFromTokens of app.js
App_BuildKeys ==
  \E tokens \in TokenLists, prefixLen \in PrefixLens :
    /\ call = NoCall
    /\ call' = [fn |-> "App_buildKeysFromTokens", tokens |-> tokens,
                prefixLen |-> prefixLen]
    /\ ret' = App_buildKeysFromTokens(tokens, prefixLen)
    /\ OthersCall

NextKeys == BuildKeys \/ App_BuildKeys

\* The strings the normalizers of candidates.js are called on: every string
\* of up to MaxStringLen of these characters
NormChars == {"sp", "nbsp", "dot", "virama", "maa", "ra", "va", "ddha"}
MaxStringLen == 3
NormStrings == UNION {[1..n -> NormChars] : n \in 0..MaxStringLen}

\* each normalizer on a string, and again on what it returned
Norm ==
  \E s \in NormStrings :
    /\ call = NoCall
    /\ call' = [fn |-> "norm", s |-> s]
    /\ ret' = [once |-> norm(s), twice |-> norm(norm(s))]
    /\ OthersCall

NormExactIndex ==
  \E s \in NormStrings :
    /\ call = NoCall
    /\ call' = [fn |-> "normExactIndex", s |-> s]
    /\ ret' = [once |-> normExactIndex(s), twice |-> normExactIndex(normExactIndex(s))]
    /\ OthersCall

NormLoose ==
  \E s \in NormStrings :
    /\ call = NoCall
    /\ call' = [fn |-> "normLoose", s |-> s]
    /\ ret' = [once |-> normLoose(s), twice |-> normLoose(normLoose(s))]
    /\ OthersCall

NextNorm == Norm \/ NormExactIndex \/ NormLoose

\* The word pairs compareWordAddOutside is called on: ka and kha are phonetic
\* partners, ma is outside every group of theirs; the words have a length
\* at which an outside substitution is allowed
PairChars == {"ka", "kha", "ma"}
MaxPairLen == 3
PairWords ==
  UNION {[1..n -> PairChars] : n \in {l \in 1..MaxPairLen : outsideSubsCapByLen(l) > 0}}

\* compareWordAddOutside of a query word and a candidate word
CompareAddOutsidePair ==
  \E q \in PairWords, c \in PairWords :
    /\ call = NoCall
    /\ call' = [fn |-> "compareWordAddOutside pair", qWord |-> q, cWord |-> c]
    /\ ret' = compareWordAddOutside(q, c, TRUE, NoCap)
    /\ OthersCall

NextPair == CompareAddOutsidePair

\* CONFUSABLE_SETS of candidates.js and app.js, from which CONF_MAP is built
CONFUSABLE_SETS ==
  <<<<"da", "ddha", "ha">>, <<"ba", "va">>, <<"sa", "sha">>, <<"ta", "na">>,
    <<"dda", "ddha">>>>

SameConfusableSet(a, b) ==
  \E g \in 1..Len(CONFUSABLE_SETS) : {a, b} \subseteq Range(CONFUSABLE_SETS[g])

\* The strings the loose normalizer is compared on
LooseChars == {"da", "ddha", "ha", "dda", "ba", "va", "ra", "kha"}
MaxLooseLen == 2
LooseStrings == UNION {[1..n -> LooseChars] : n \in 0..MaxLooseLen}
RaVaStrings == UNION {[1..n -> LooseChars] : n \in 2..(MaxLooseLen + 1)}

\* normLoose on two strings that differ only by exchanging members of one
\* confusable set at some places
LooseExchange ==
  \E s \in LooseStrings, t \in LooseStrings :
    /\ call = NoCall
    /\ Len(s) = Len(t)
    /\ \A i \in 1..Len(s) : s[i] = t[i] \/ SameConfusableSet(s[i], t[i])
    /\ call' = [fn |-> "normLoose exchange", s |-> s, t |-> t]
    /\ ret' = [s |-> normLoose(s), t |-> normLoose(t)]
    /\ OthersCall

\* normLoose on a string with ra va at p and on the string with kha there
LooseRaVa ==
  \E s \in RaVaStrings, p \in 1..MaxLooseLen :
    /\ call = NoCall
    /\ p < Len(s) /\ s[p] = "ra" /\ s[p + 1] = "va"
    /\ LET t == SubSeq(s, 1, p - 1) \o <<"kha">> \o SubSeq(s, p + 2, Len(s))
       IN  /\ call' = [fn |-> "normLoose ra va", s |-> s, t |-> t]
           /\ ret' = [s |-> normLoose(s), t |-> normLoose(t)]
    /\ OthersCall

NextLoose == LooseExchange \/ LooseRaVa

\* ------------------------------------------------------------------
\* Specifications
\* ------------------------------------------------------------------
Init == InitWorker /\ InitSearch /\ InitPreload /\ InitCand /\ InitCall

\* the worker driven by any client
SpecWorker == Init /\ [][NextWorker]_vars

\* the worker over several cycles
SpecCycle == Init /\ [][NextCycle]_vars

\* the district preload
SpecPreload == Init /\ [][NextPreload]_vars

\* the district preload when every await of loadAC ends: the request of
\* loadAC is answered or rejected, and a resolved promise is resumed
SpecPreloadLive ==
  Init /\ [][NextPreload]_vars /\ \A p \in Preloads : WF_vars(PreloadLoaded(p))

\* the client search loop with the worker and the store
SpecSearch == Init /\ [][NextSearch]_vars

\* candidate requests
SpecCand == Init /\ [][NextCand]_vars

\* row id blobs
SpecDecode == Init /\ [][NextDecode]_vars

\* words
SpecWords == Init /\ [][NextWords]_vars

\* normalizers
SpecNorm == Init /\ [][NextNorm]_vars

\* field evaluation
SpecField == Init /\ [][NextField]_vars

\* key builders
SpecKeys == Init /\ [][NextKeys]_vars

\* evaluateAgainstField on two fields for one query
SpecBucket == Init /\ [][NextBucket]_vars

\* statements sent to the store
SpecStore == Init /\ [][NextStore]_vars

\* compareWordAddOutside on pairs of words
SpecPair == Init /\ [][NextPair]_vars

\* the loose normalizer on pairs of strings
SpecLoose == Init /\ [][NextLoose]_vars

\* ------------------------------------------------------------------
\* Properties of the worker
\* ------------------------------------------------------------------
\* the worker has just handled "finish": it posted the sorting progress and
\* the ranked list
Finished == Len(posted) = 2 /\ posted[2].type = "done"

\* 0 for an EXACT key, 1..3 for the typing families FULL, PF, AO
FamilyOf(key) == IF key[1] = 0 THEN 0 ELSE 1 + key[2]

ExplainRank(e) ==
  CASE e = "EXACT" -> 0 [] e = "TYPO_FULL" -> 1 [] e = "TYPO_PF" -> 2
    [] e = "TYPO_AO" -> 3

\* C1: in the ranked list posted on finish, which lists the sorted buffer,
\* every EXACT row precedes every typing row, and among typing rows every
\* TYPO_FULL row precedes every TYPO_PF row, which precedes every TYPO_AO row.
C1_ExactBeforeTyping ==
  Finished =>
    /\ Len(posted[2].ranked) = Len(buffer)
    /\ \A i \in 1..Len(buffer) :
         /\ posted[2].ranked[i].row_id = buffer[i].row_id
         /\ posted[2].ranked[i].rank = i - 1
         /\ ExplainRank(posted[2].ranked[i].explain) = FamilyOf(buffer[i].key)
    /\ \A i, j \in 1..Len(buffer) :
         i < j => FamilyOf(buffer[i].key) <= FamilyOf(buffer[j].key)

\* a finished run whose ranked list has an EXACT, a TYPO_FULL and a TYPO_AO
\* row, pushed in another order than the ranked one
C1_Witness ==
  /\ Finished
  /\ \E i, j, k \in 1..Len(posted[2].ranked) :
       /\ posted[2].ranked[i].explain = "EXACT"
       /\ posted[2].ranked[j].explain = "TYPO_FULL"
       /\ posted[2].ranked[k].explain = "TYPO_AO"
       /\ posted[2].ranked[k].row_id < posted[2].ranked[j].row_id

\* what C4 asks of the three results of one row
SmallerOrVoter(any, v, r) ==
  /\ any.ok <=> (v.ok \/ r.ok)
  /\ (v.ok /\ ~r.ok) => any = v
  /\ (r.ok /\ ~v.ok) => any = r
  /\ (v.ok /\ r.ok) =>
       /\ cmpKey(any.key, v.key) <= 0
       /\ cmpKey(any.key, r.key) <= 0
       /\ any = (IF cmpKey(r.key, v.key) < 0 THEN r ELSE v)

\* C4: with scope "anywhere" evaluateRow returns, for every row, the
\* lexicographically smaller of the results that scope "voter" and scope
\* "relative" return, a result whenever either of them has one, and the voter
\* result when the two keys compare equal; the entries the worker pushed in an
\* "anywhere" run carry that key and field.
C4_AnywhereTakesSmaller ==
  /\ \A i \in 1..Len(RowStore[feedAc]) :
       SmallerOrVoter(EvaluateRowWith(RowStore[feedAc][i], qTokens, "anywhere", exactOn),
                      EvaluateRowWith(RowStore[feedAc][i], qTokens, "voter", exactOn),
                      EvaluateRowWith(RowStore[feedAc][i], qTokens, "relative", exactOn))
  /\ scope = "anywhere" =>
       \A i \in 1..Len(buffer) :
         SmallerOrVoter(
           [ok |-> TRUE, key |-> buffer[i].key, explain |-> buffer[i].explain,
            match_field |-> buffer[i].match_field],
           EvaluateRowWith(RowOf(feedAc, buffer[i].row_id), qTokens, "voter", exactOn),
           EvaluateRowWith(RowOf(feedAc, buffer[i].row_id), qTokens, "relative", exactOn))

\* an "anywhere" run that pushed a row whose voter name matches but whose
\* relative name matches with a smaller key, and a row whose two keys tie
C4_Witness ==
  /\ scope = "anywhere"
  /\ \E i \in 1..Len(buffer) :
       /\ buffer[i].match_field = "relative"
       /\ EvaluateRowWith(RowOf(feedAc, buffer[i].row_id), qTokens, "voter", exactOn).ok
  /\ \E i \in 1..Len(buffer) :
       /\ buffer[i].match_field = "voter"
       /\ EvaluateRowWith(RowOf(feedAc, buffer[i].row_id), qTokens, "relative", exactOn).ok
       /\ EvaluateRowWith(RowOf(feedAc, buffer[i].row_id), qTokens, "relative",
                          exactOn).key = buffer[i].key

ExactOrNothing(res) == res.ok => (res.key[1] = 0 /\ res.explain = "EXACT")

\* C6: with exactOn set, evaluateAgainstField returns ok = false or an EXACT
\* key (first element 0) for the query and every name of the store, and every
\* entry the worker holds in an exact-only run has an EXACT key.
C6_ExactOnlySuppressesTyping ==
  /\ \A i \in 1..Len(RowStore[feedAc]) :
       /\ ExactOrNothing(evaluateAgainstField(
            qTokens, tokenizeStrict(RowStore[feedAc][i].voter_name_raw),
            parseSerial(RowStore[feedAc][i].serial_no), "voter", TRUE))
       /\ ExactOrNothing(evaluateAgainstField(
            qTokens, tokenizeStrict(RowStore[feedAc][i].relative_name_raw),
            parseSerial(RowStore[feedAc][i].serial_no), "relative", TRUE))
  /\ exactOn => \A i \in 1..Len(buffer) :
                  buffer[i].key[1] = 0 /\ buffer[i].explain = "EXACT"

\* an exact-only run that has received every row of an AC, kept some and
\* dropped one that a typing run would have kept
C6_Witness ==
  /\ exactOn
  /\ buffer # <<>>
  /\ Len(buffer) < received
  /\ \E i \in 1..Len(RowStore[feedAc]) :
       /\ \A j \in 1..Len(buffer) : buffer[j].row_id # RowStore[feedAc][i].row_id
       /\ EvaluateRowWith(RowStore[feedAc][i], qTokens, scope, FALSE).ok

\* the row ids of the entries the worker holds
BufferIds == {buffer[i].row_id : i \in 1..Len(buffer)}

\* the ranking of a set of rows of the AC fed to the worker, received in one
\* batch in the order of the store
RankingOfSet(ids) ==
  SortEntries(ScoreRows(RowsById(feedAc, ids), qTokens, scope, exactOn), <<>>)

\* C11: for the query, scope and exactOn of the run, the row ids of the
\* ranked list posted on finish are those of the ranking of the set of rows
\* received (row ids distinct), however the rows were ordered and batched.
C11_RankingDependsOnRowSetOnly ==
  (Finished /\ Cardinality(BufferIds) = Len(buffer)) =>
    /\ Len(posted[2].ranked) = Len(RankingOfSet(BufferIds))
    /\ \A i \in 1..Len(posted[2].ranked) :
         posted[2].ranked[i].row_id = RankingOfSet(BufferIds)[i].row_id

\* a finished run that received three distinct rows in more than one batch,
\* kept them all and ranked them in another order than that of the store
C11_Witness ==
  /\ Finished
  /\ received = 3
  /\ MaxBatch < 3
  /\ Cardinality(BufferIds) = 3
  /\ \E i \in 1..2 : posted[2].ranked[i].row_id > posted[2].ranked[i + 1].row_id

\* ------------------------------------------------------------------
\* Properties of the search loop
\* ------------------------------------------------------------------
\* activation s has left its loop and published its merged list
Published(s) == run[s].pc \in {"render", "done"}

\* activation s waits for a response of the store or of the worker
InFlight(s) == run[s].pc \in {"meta", "cand", "rows", "rank"}

\* the result the worker computes for an entry of a merged list under the
\* settings of activation r
ResultOfEntry(e, r) ==
  EvaluateRowWith(RowOf(e.ac, e.row_id), tokenizeStrict(normStrict(r.q)),
                  r.scopeForWorker, r.exactOn)

Listed(list, a, rid) == \E i \in 1..Len(list) : list[i].ac = a /\ list[i].row_id = rid

\* C2: after the only runSearch call has gone over both ACs without a failed
\* request, rankedByRelevance follows the order of the ranking keys: no row
\* stands behind a row with a larger key, whatever ACs the two come from.
C2_MergedFollowsKeyOrder ==
  (launched = 1 /\ failures = 0 /\ Published(1)) =>
    \A i, j \in 1..Len(rankedByRelevance) :
      i < j => cmpKey(ResultOfEntry(rankedByRelevance[j], run[1]).key,
                      ResultOfEntry(rankedByRelevance[i], run[1]).key) >= 0

\* C3: once two runSearch calls with a query have both ended without a
\* failed request, rankedByRelevance and the view hold what the call started
\* last has merged.
C3_LatestSearchWins ==
  (launched = 2 /\ failures = 0 /\ run[1].pc = "done" /\ run[2].pc = "done"
     /\ run[1].q # <<>> /\ run[2].q # <<>>) =>
    /\ rankedByRelevance = SortMerged(run[2].merged, <<>>)
    /\ rankedView = SortMerged(run[2].merged, <<>>)

\* C5: after the only runSearch call, made with scope "anywhere", has ended
\* without a failed request, every candidate whose relative name matches the
\* query while its voter name does not is in rankedByRelevance.
C5_AnywhereRanksRelativeMatches ==
  (launched = 1 /\ failures = 0 /\ Published(1) /\ searchScope = "anywhere"
     /\ run[1].q # <<>>) =>
    \A a \in ACs :
      \A rid \in CandidatesOf[a][run[1].q]["anywhere"][run[1].exactOn].candidates :
        ( /\ EvaluateRowWith(RowOf(a, rid), tokenizeStrict(normStrict(run[1].q)),
                             "relative", run[1].exactOn).ok
          /\ ~EvaluateRowWith(RowOf(a, rid), tokenizeStrict(normStrict(run[1].q)),
                              "voter", run[1].exactOn).ok )
        => Listed(rankedByRelevance, a, rid)

\* C10: when a request of the only runSearch call has failed and the call is
\* no longer waiting, rankedByRelevance holds the rows merged from the ACs
\* whose requests succeeded.
C10_FailedAcKeepsOthers ==
  (launched = 1 /\ run[1].failed # "none" /\ ~InFlight(1)) =>
    rankedByRelevance = SortMerged(run[1].merged, <<>>)

\* ------------------------------------------------------------------
\* Properties of the candidate requests
\* ------------------------------------------------------------------
\* the request went to a candidate generator (not to the single-table
\* endpoint of unnamed/part_005)
Generated == creq.via \in {"netlify", "client", "app", "post004"}

ScopeTables(scope_) == {t \in Tables : FieldSelected(scope_, t.field)}

LookedUp == {l.table : l \in clookups}

\* the rows the lookup of table t yielded, <<>> when t was not looked up
RowsOfLookup(t) ==
  IF t \in LookedUp THEN (CHOOSE l \in clookups : l.table = t).rows ELSE <<>>

\* the counters a metadata record carries for table t, in the field names of
\* unnamed/part_001 and netlify/functions/candidates.js or of unnamed/part_004
MetaHitCount(m, t) ==
  IF "voter_hit_count" \in DOMAIN m
    THEN CASE t = Table("strict", "voter") -> m.voter_hit_count
           [] t = Table("strict", "relative") -> m.relative_hit_count
           [] t = Table("exact", "voter") -> m.voter_exact_hit_count
           [] t = Table("exact", "relative") -> m.relative_exact_hit_count
           [] t = Table("loose", "voter") -> m.voter_loose_hit_count
           [] t = Table("loose", "relative") -> m.relative_loose_hit_count
    ELSE CASE t = Table("strict", "voter") -> m.strict_voter_hit_count
           [] t = Table("strict", "relative") -> m.strict_rel_hit_count
           [] t = Table("exact", "voter") -> m.exact_voter_hit_count
           [] t = Table("exact", "relative") -> m.exact_rel_hit_count
           [] t = Table("loose", "voter") -> m.loose_voter_hit_count
           [] t = Table("loose", "relative") -> m.loose_rel_hit_count

MetaAndHit(m, t) ==
  IF "voter_and_hit" \in DOMAIN m
    THEN CASE t = Table("strict", "voter") -> m.voter_and_hit
           [] t = Table("strict", "relative") -> m.relative_and_hit
           [] t = Table("exact", "voter") -> m.voter_exact_and_hit
           [] t = Table("exact", "relative") -> m.relative_exact_and_hit
           [] t = Table("loose", "voter") -> m.voter_loose_and_hit
           [] t = Table("loose", "relative") -> m.relative_loose_and_hit
    ELSE CASE t = Table("strict", "voter") -> m.strict_voter_and_hit
           [] t = Table("strict", "relative") -> m.strict_rel_and_hit
           [] t = Table("exact", "voter") -> m.exact_voter_and_hit
           [] t = Table("exact", "relative") -> m.exact_rel_and_hit
           [] t = Table("loose", "voter") -> m.loose_voter_and_hit
           [] t = Table("loose", "relative") -> m.loose_rel_and_hit

\* C7: in a request with exactOn set no loose index is looked up, and no
\* candidate has a loose hit counter other than 0.
C7_ExactOnlySkipsLoose ==
  (Generated /\ creq.exactOn) =>
    /\ \A t \in LookedUp : t.family # "loose"
    /\ \A rid \in cresp.candidates :
         \A t \in Tables :
           t.family = "loose" => MetaHitCount(cresp.metaByRow[rid], t) = 0

\* C8: the candidate set of a request is the union of the rows of its index
\* lookups; the lookups are on tables of the fields the scope selects and
\* cover every strict and exact table of those fields that has keys; every
\* candidate has a metadata record, which carries for each table the
\* hit_count and and_hit of the lookup that found the row, and 0 and false
\* for a table that was not looked up or did not yield the row.
C8_CandidatesAreUnionOfScopeLookups ==
  Generated =>
    /\ LookedUp \subseteq ScopeTables(creq.scope)
    /\ \A t \in ScopeTables(creq.scope) :
         (t.family # "loose" /\ KeysFor(creq.keys, t.family) # <<>>) => t \in LookedUp
    /\ cresp.candidates = UNION {DOMAIN l.rows : l \in clookups}
    /\ DOMAIN cresp.metaByRow = cresp.candidates
    /\ \A rid \in cresp.candidates :
         \A t \in Tables :
           /\ MetaHitCount(cresp.metaByRow[rid], t) = HitCountIn(RowsOfLookup(t), rid)
           /\ MetaAndHit(cresp.metaByRow[rid], t) = AndHitIn(RowsOfLookup(t), rid)

\* an "anywhere" request that looked up all six tables and whose candidates
\* include a row every table yielded, a row only relative tables yielded and
\* a row only the loose tables yielded
C8_Witness ==
  /\ Generated
  /\ creq.scope = "anywhere"
  /\ LookedUp = Tables
  /\ \E rid \in cresp.candidates :
       \A t \in LookedUp : rid \in DOMAIN RowsOfLookup(t)
  /\ \E rid \in cresp.candidates :
       \A t \in LookedUp : rid \in DOMAIN RowsOfLookup(t) => t.field = "relative"
  /\ \E rid \in cresp.candidates :
       \A t \in LookedUp : rid \in DOMAIN RowsOfLookup(t) => t.family = "loose"

\* C9: for every index lookup, a row it yields has and_hit exactly when its
\* hit_count is the number of keys queried against the index, and its
\* hit_count is between 1 and that number.
C9_AndHitIffAllQueriedKeysHit ==
  \A l \in clookups :
    \A rid \in DOMAIN l.rows :
      /\ l.rows[rid].and_hit <=> (l.rows[rid].hit_count = l.queried)
      /\ l.rows[rid].hit_count \in 1..l.queried

\* ------------------------------------------------------------------
\* Properties of the functions called on their own
\* ------------------------------------------------------------------
\* C12: decodeRowIds returns the list of row ids that was encoded, in each
\* of the four encodings, given the blob and the length of the list.
C12_DecodeReturnsEncodedList ==
  call.fn = "decodeRowIds" => ret = call.ids

\* C13: segmentEntities comes to an end on every word, returns non-empty
\* entities only, and the entities put together in order are the word; the
\* same for the word stripMarks returns.
C13_SegmentsConcatenateToWord ==
  call.fn = "segmentEntities" =>
    /\ \A i \in 1..Len(ret) : ret[i] # <<>>
    /\ Concat(ret) = call.word

\* reached: a string with a mark is stripped and its segmentation holds an
\* entity of more than one character and a character that starts no entity
C13_Witness ==
  /\ call.fn = "segmentEntities" /\ call.stripped
  /\ call.word # call.s
  /\ \E i \in 1..Len(ret) : Len(ret[i]) > 1
  /\ \E i \in 1..Len(ret) : ret[i] \notin ENTITY_LIST

\* C14: each of norm, normExactIndex and normLoose, applied to its own
\* result, returns that result.
C14_NormalizersIdempotent ==
  call.fn \in {"norm", "normExactIndex", "normLoose"} => ret.twice = ret.once

\* reached: normLoose on a string with punctuation, a mark and a confusable
\* consonant, all of which it changes
C14_Witness ==
  /\ call.fn = "normLoose"
  /\ {"dot", "virama", "ddha"} \subseteq Range(call.s)
  /\ ret.once = <<"dda">>
  /\ ret.twice = <<"dda">>

\* the word has a character that is neither a mark nor punctuation nor a space
HasLetter(w) ==
  \E i \in 1..Len(w) : w[i] \notin MARKS_AS_MATRA \cup Punctuation \cup Whitespace

\* C15 as stated: for any word w and either value of allowConsonantSubs,
\* compareWordFull(w, w, allowConsonantSubs) is ok with no consonant
\* mismatch, no matra mismatch and typeBucket 0.
C15_FullSelfAlwaysOk ==
  call.fn = "compareWordFull" =>
    /\ ret.ok
    /\ ret.consonantMismatches = 0
    /\ ret.matraMismatches = 0
    /\ ret.typeBucket = 0

\* C15 amended: the same for any word w that has a character other than
\* marks, punctuation and spaces.
C15_FullSelfOkWithLetter ==
  (call.fn = "compareWordFull" /\ HasLetter(call.qWord)) =>
    /\ ret.ok
    /\ ret.consonantMismatches = 0
    /\ ret.matraMismatches = 0
    /\ ret.typeBucket = 0

\* reached: a word with a mark, a space and a two-character entity compared
\* with itself, consonant substitutions not allowed
C15_Witness ==
  /\ call.fn = "compareWordFull" /\ ~call.allowConsonantSubs
  /\ {"virama", "sp"} \subseteq Range(call.qWord)
  /\ \E i \in 1..(Len(call.qWord) - 1) : call.qWord[i] = "ra" /\ call.qWord[i + 1] = "maa"
  /\ ret.ok

\* C16 as stated: for any word w, either value of allowConsonantSubs and any
\* addCap, compareWordAddOutside(w, w, allowConsonantSubs, addCap) is ok with
\* no additions, no outside substitutions and typeBucket 0.
C16_AddOutsideSelfAlwaysOk ==
  call.fn = "compareWordAddOutside" =>
    /\ ret.ok
    /\ ret.additions = 0
    /\ ret.outsideSubs = 0
    /\ ret.typeBucket = 0

\* C16 amended: the same when consonant substitutions are allowed and w has
\* a character other than marks, punctuation and spaces (addCap null or a
\* number from 0 up).
C16_AddOutsideSelfOkWhenAllowed ==
  (call.fn = "compareWordAddOutside" /\ call.allowConsonantSubs /\ HasLetter(call.qWord)) =>
    /\ ret.ok
    /\ ret.additions = 0
    /\ ret.outsideSubs = 0
    /\ ret.typeBucket = 0

\* reached: a word of three entities, one of them of two characters, compared
\* with itself under a cap of 0 additions
C16_Witness ==
  /\ call.fn = "compareWordAddOutside" /\ call.allowConsonantSubs
  /\ call.addCap = <<0>>
  /\ ret.ok /\ ret.qLen = 3 /\ Len(call.qWord) = 4

\* the consonant mismatches of the query words of the call, word by word
\* (of a query of two or more words, each against the aligned token)
WordCons ==
  [i \in 1..Len(call.qToks) |->
     compareWordFull(call.qToks[i], call.candToks[i], TRUE).consonantMismatches]

\* C17: when evaluateAgainstField emits a TYPO_FULL key, every query word has
\* at most 4 consonant mismatches, and their sum is at most 5 for a query of
\* two words and at most 7 for a query of three or more.
C17_FullKeyWithinCaps ==
  (call.fn = "evaluateAgainstField" /\ ret.ok /\ ret.explain = "TYPO_FULL") =>
    IF Len(call.qToks) = 1 THEN ret.key[4] <= 4
    ELSE /\ \A i \in 1..Len(call.qToks) : WordCons[i] <= 4
         /\ SumSeq(WordCons) <= (IF Len(call.qToks) = 2 THEN 5 ELSE 7)

\* reached: a TYPO_FULL key for a query of three words with 3, 3 and 0
\* consonant mismatches
C17_Witness ==
  /\ call.fn = "evaluateAgainstField" /\ ret.ok /\ ret.explain = "TYPO_FULL"
  /\ Len(call.qToks) = 3
  /\ WordCons = <<3, 3, 0>>

\* C19: a query of two or more words in typing mode, against a field with at
\* least as many tokens, is disqualified only if some query word fails the
\* ADD/OUTSIDE comparison with its aligned token (so a total over the cap
\* after FULL passed word by word leads on to PF and ADD/OUTSIDE).
C19_RejectedOnlyWhenAddOutsideFails ==
  ( /\ call.fn = "evaluateAgainstField" /\ ~call.exactOn
    /\ Len(call.qToks) >= 2 /\ Len(call.candToks) >= Len(call.qToks)
    /\ ~ret.ok ) =>
    \E i \in 1..Len(call.qToks) :
      ~compareWordAddOutside(call.qToks[i], call.candToks[i], TRUE,
         IF i = 1 THEN <<ADD_FALLBACK_FIRST_WORD_MAX_ADD_ENTITIES_IN_MULTI>> ELSE NoCap).ok

\* where suffixCount stands in the key of a ranked entry (0: the key has none)
SuffixPos(e) ==
  IF e.explain = "EXACT" THEN 5
  ELSE IF Len(call.qToks) = 1 THEN 0
  ELSE IF e.explain = "TYPO_FULL" THEN 5
  ELSE 7

\* C18: of two matches whose keys agree in every position before
\* suffixCount, the one with the smaller suffixCount is ranked first; of two
\* EXACT matches of a 1-word query that agree in everything but the kind,
\* TOKEN is ranked before JOIN2 and JOIN2 before FULLJOIN.
C18_SmallerSuffixAndKindFirst ==
  (call.fn = "rank" /\ Len(ret) = 2) =>
    /\ ( /\ ret[1].explain = ret[2].explain /\ SuffixPos(ret[1]) # 0
          /\ \A i \in 1..(SuffixPos(ret[1]) - 1) : ret[1].key[i] = ret[2].key[i] )
        => ret[1].key[SuffixPos(ret[1])] <= ret[2].key[SuffixPos(ret[1])]
    /\ ( /\ Len(call.qToks) = 1 /\ ret[1].explain = "EXACT" /\ ret[2].explain = "EXACT"
          /\ \A i \in 1..7 : i # 3 => ret[1].key[i] = ret[2].key[i] )
        => ret[1].key[3] <= ret[2].key[3]

\* reached: two typing matches of a 2-word query with equal keys up to
\* suffixCount; the second row has the smaller suffixCount and is ranked first
C18_Witness ==
  /\ call.fn = "rank" /\ Len(ret) = 2
  /\ ret[1].explain = "TYPO_FULL" /\ ret[2].explain = "TYPO_FULL"
  /\ \A i \in 1..4 : ret[1].key[i] = ret[2].key[i]
  /\ ret[1].key[5] < ret[2].key[5]
  /\ ret[1].row_id = 2

\* C20: in every pairing of a client with a server, the strict, exact and
\* loose key lists queried for a query are the ones the key builder of the
\* server side makes from the query tokenized with the strict, the exact and
\* the loose normalizer.
C20_KeysFromFamilyNormalizers ==
  creq.via \in {"netlify", "client", "app"} => creq.keys = QueryKeys(creq.q)

\* the first p characters of s, all of s when it is shorter
FirstP(s, p) == SubSeq(s, 1, Min(p, Len(s)))

\* C21: for two or more tokens and a prefix length p, buildKeysFromTokens
\* returns a list without duplicates of non-empty keys of at most p
\* characters, with the first-p prefix of every token, of all tokens put
\* together, and of tokens[i] + tokens[i+1] for every adjacent pair.
C21_KeysCoverTokensAndJoins ==
  (call.fn \in {"buildKeysFromTokens", "App_buildKeysFromTokens"}
     /\ Len(call.tokens) >= 2) =>
    /\ \A i, j \in 1..Len(ret) : ret[i] = ret[j] => i = j
    /\ \A i \in 1..Len(ret) : ret[i] # <<>> /\ Len(ret[i]) <= call.prefixLen
    /\ \A i \in 1..Len(call.tokens) : FirstP(call.tokens[i], call.prefixLen) \in Range(ret)
    /\ FirstP(Concat(call.tokens), call.prefixLen) \in Range(ret)
    /\ \A i \in 1..(Len(call.tokens) - 1) :
         FirstP(call.tokens[i] \o call.tokens[i + 1], call.prefixLen) \in Range(ret)

\* what one statement over all the ids of the call would return
Unchunked ==
  IF call.fn = "rows" THEN SelectSeq(call.ids, InVoters)
  ELSE queryIndexCandidates(BigIdx, call.ids)

\* C22: no statement sent to the store binds more parameters than the
\* store's limit; the keys or row ids of a request are split over the
\* statements, each in exactly one of them, and the combined result is that
\* of one lookup over all of them.
C22_StatementsWithinLimit ==
  call.fn \in {"lookup005", "rows", "queryIndexCandidates"} =>
    /\ \A i \in 1..Len(ret.statements) :
         Len(ret.statements[i].bound) + ret.statements[i].others <= SQLITE_MAX_VARIABLES
    /\ Concat([i \in 1..Len(ret.statements) |-> ret.statements[i].bound]) = call.ids
    /\ ret.rows = Unchunked

\* C23: two strings that differ only by exchanging members of the same
\* confusable set have the same loose form, every member of a set being
\* mapped to the one representative of the set.
C23_ExchangedMembersSameLooseForm ==
  call.fn = "normLoose exchange" => ret.s = ret.t

\* C24: a string with ra followed by va and the same string with kha in
\* that place have the same loose form.
C24_RaVaLooseFormIsKha ==
  call.fn = "normLoose ra va" => ret.s = ret.t

\* the mismatch counts over the aligned prefix of the words of the call
PairTally ==
  Tally(Prep(call.qWord).ent, Prep(call.cWord).ent, Len(Prep(call.qWord).ent))

\* C25: the typeBucket of compareWordAddOutside is the ladder over the set
\* substitutions alone, outside substitutions not counting as mismatches: it
\* is 0 when the only consonant mismatches of the aligned prefix are outside
\* substitutions, and always one of 0..4.
C25_TypeBucketIgnoresOutside ==
  (call.fn = "compareWordAddOutside pair" /\ ret.ok) =>
    /\ ret.typeBucket \in 0..4
    /\ ret.typeBucket = TypeBucketOf(PairTally.cons - PairTally.outsideCount, PairTally)
    /\ PairTally.cons = PairTally.outsideCount => ret.typeBucket = 0

\* the ranking the worker computes from the rows activation s posted in its
\* last runWorkerRanking call, as worker.onmessage hands it to the promise
RankingOfSent(s) ==
  ScoredRanked(SortEntries(ScoreRows(run[s].sent, tokenizeStrict(normStrict(run[s].q)),
                                     run[s].scopeForWorker, run[s].exactOn), <<>>))

\* C26: a runWorkerRanking call resolves with the ranking the worker
\* computed from the rows the same call posted, and once the worker has
\* answered every message no call is left waiting for its ranking.
C26_EachCallGetsItsOwnRanking ==
  \A s \in Searches :
    /\ run[s].ranked # <<>> => run[s].ranked[1] = RankingOfSent(s)
    /\ (inbox = <<>> /\ outbox = <<>>) => run[s].pc # "rank"

\* C27: the candidates request and the rows request that an activation of
\* runSearch sends for the AC of its loop carry that AC, and the rows it
\* posts to the worker, which it merges under that AC, are rows of that AC,
\* whatever other activations do between its awaits.
C27_RequestsCarryLoopAc ==
  \A s \in Searches :
    /\ run[s].pc \in {"cand", "rows"} => run[s].reqAc = ACList[run[s].i]
    /\ run[s].pc = "rank" => run[s].sent = RowsById(ACList[run[s].i], run[s].cand)

\* how often x occurs in the sequence s
Occurrences(s, x) == Count({i \in 1..Len(s) : s[i] = x})

NewestInFlight(p) ==
  preload.act[p].pc = "load" /\ preload.act[p].token = preload.districtPreloadToken

\* a step of activation p taken after a later preload took a token
SupersededStep(p) ==
  /\ preload.act[p].pc = "load"
  /\ preload.act[p].token # preload.districtPreloadToken
  /\ preload.act[p]' # preload.act[p]

ConsAgainst(candToks) ==
  [i \in 1..Len(call.qToks) |->
     compareWordFull(call.qToks[i], candToks[i], TRUE).consonantMismatches]

\* C30: of two TYPO_FULL results for a query of two or more words, the one
\* whose query words all have zero consonant mismatches has a typing bucket
\* no larger than the one with a consonant mismatch in some word, and its
\* key does not compare after the other's.
C30_ZeroMismatchBucketNotWorse ==
  ( /\ call.fn = "evaluateAgainstField two"
    /\ ret.a.ok /\ ret.a.explain = "TYPO_FULL"
    /\ ret.b.ok /\ ret.b.explain = "TYPO_FULL"
    /\ \A i \in 1..Len(call.qToks) : ConsAgainst(call.a)[i] = 0
    /\ \E i \in 1..Len(call.qToks) : ConsAgainst(call.b)[i] >= 1 ) =>
    /\ ret.a.key[3] <= ret.b.key[3]
    /\ cmpKey(ret.a.key, ret.b.key) <= 0

====
